---- MODULE Spec2Model ----
(***************************************************************************)
(* CSC360FS disk tools (diskinfo, disklist, diskget, diskput) and ssi, the *)
(* interactive shell.                                                      *)
(*                                                                         *)
(* The disk image is a flat sequence of bytes, exactly as the tools see it *)
(* through fseek/fread/fwrite.  Every tool invocation is a one-shot,       *)
(* single-threaded process, so one invocation is one action.               *)
(*                                                                         *)
(* Field widths are scaled down so that the images stay small: a uint32_t  *)
(* occupies U32Bytes bytes (big-endian on disk), a uint16_t U16Bytes, the  *)
(* filename field NameField bytes.  All arithmetic on a uint32_t is taken  *)
(* modulo Word = 256^U32Bytes and the chain terminator is the all-ones     *)
(* word.  The relations between the widths of the source are kept: the     *)
(* name copied by diskput is one byte shorter than the filename field, the *)
(* name copied by diskget is as long as the field.                         *)
(***************************************************************************)
EXTENDS Integers, Sequences, FiniteSets, TLC

VARIABLES image, prev, run, nops, calc,
          pc, jobs, proc, sigint, oldint, fgpid, fgargv, said, nforks,
          hist, seen

diskvars == <<image, prev, run, nops, calc>>
shellvars ==
    <<pc, jobs, proc, sigint, oldint, fgpid, fgargv, said, nforks, hist, seen>>
vars == <<image, prev, run, nops, calc,
          pc, jobs, proc, sigint, oldint, fgpid, fgargv, said, nforks,
          hist, seen>>

(***************************************************************************)
(* Widths of the on-disk fields (scaled).                                  *)
(***************************************************************************)
U16Bytes == 1
U32Bytes == 2
MagicBytes == 2
TimeBytes == 1
NameField == 3
UnusedBytes == 1
PutNameLen == 2
GetNameLen == 3
DirNameLen == 2
CmpLen == 3

Word == 256 * 256
EOC == Word - 1
U32(x) == x % Word

Magic == <<67, 83>>
Slash == 47
Dot == 46

Min(a, b) == IF a < b THEN a ELSE b
Max(a, b) == IF a > b THEN a ELSE b
Take(s, n) == SubSeq(s, 1, Min(n, Len(s)))
Drop(s, n) == SubSeq(s, n + 1, Len(s))
Fill(n, v) == [i \in 1..n |-> v]

(***************************************************************************)
(* Byte order.  The structs hold the big-endian bytes as read; ntohl and   *)
(* ntohs give the value, htonl the bytes.                                  *)
(***************************************************************************)
RECURSIVE BigEndian(_)
BigEndian(b) ==
    IF Len(b) = 0 THEN 0
    ELSE BigEndian(SubSeq(b, 1, Len(b) - 1)) * 256 + b[Len(b)]

RECURSIVE Pow256(_)
Pow256(n) == IF n = 0 THEN 1 ELSE 256 * Pow256(n - 1)

Ntohl(b) == BigEndian(b)
Ntohs(b) == BigEndian(b)
Htonl(v) == [i \in 1..U32Bytes |-> (v \div Pow256(U32Bytes - i)) % 256]
Htons(v) == [i \in 1..U16Bytes |-> (v \div Pow256(U16Bytes - i)) % 256]

(***************************************************************************)
(* stdio on the image file.  fseek never fails on a regular file, also     *)
(* beyond its end; fread past the end is short; fwrite past the end        *)
(* extends the file, the gap reading as zero bytes.                        *)
(***************************************************************************)
CanRead(img, off, n) == off + n <= Len(img)
ReadAt(img, off, n) == SubSeq(img, off + 1, off + n)
WriteAt(img, off, bytes) ==
    [i \in 1..Max(Len(img), off + Len(bytes)) |->
        IF i > off /\ i <= off + Len(bytes) THEN bytes[i - off]
        ELSE IF i <= Len(img) THEN img[i]
        ELSE 0]

(***************************************************************************)
(* superblock_t                                                            *)
(***************************************************************************)
SuperSize == MagicBytes + U16Bytes + 5 * U32Bytes

SuperField(img, k) ==
    ReadAt(img, MagicBytes + U16Bytes + k * U32Bytes, U32Bytes)

EncodeSuper(bs, bc, fs, fb, rs, rb) ==
    Magic \o Htons(bs) \o Htonl(bc) \o Htonl(fs) \o Htonl(fb)
          \o Htonl(rs) \o Htonl(rb)

(***************************************************************************)
(* dir_entry_t: offsets of the packed fields, decoding of a record read    *)
(* with fread and encoding of a record built in memory.                    *)
(***************************************************************************)
EntrySize == 1 + 3 * U32Bytes + 2 * TimeBytes + NameField + UnusedBytes
OffStart == 1
OffCount == OffStart + U32Bytes
OffSize == OffCount + U32Bytes
OffCTime == OffSize + U32Bytes
OffMTime == OffCTime + TimeBytes
OffName == OffMTime + TimeBytes
OffUnused == OffName + NameField

DecodeEntry(b) ==
    [status         |-> b[1],
     starting_block |-> SubSeq(b, OffStart + 1, OffStart + U32Bytes),
     block_count    |-> SubSeq(b, OffCount + 1, OffCount + U32Bytes),
     file_size      |-> SubSeq(b, OffSize + 1, OffSize + U32Bytes),
     create_time    |-> SubSeq(b, OffCTime + 1, OffCTime + TimeBytes),
     modify_time    |-> SubSeq(b, OffMTime + 1, OffMTime + TimeBytes),
     filename       |-> SubSeq(b, OffName + 1, OffName + NameField),
     unused         |-> SubSeq(b, OffUnused + 1, OffUnused + UnusedBytes)]

EncodeEntry(e) ==
    <<e.status>> \o e.starting_block \o e.block_count \o e.file_size
        \o e.create_time \o e.modify_time \o e.filename \o e.unused

InUse(e) == e.status % 2 = 1
IsFile(e) == (e.status \div 2) % 2 = 1
IsDir(e) == (e.status \div 4) % 2 = 1

\* strncpy(dst, src, n) into a zeroed field of `width` bytes, n < width or
\* followed by dst[n] = '\0': the first n characters, zero padded.
StrNCpy(src, n, width) ==
    [i \in 1..width |-> IF i <= n /\ i <= Len(src) THEN src[i] ELSE 0]

\* The C string held by a char array: the bytes before the first NUL.
RECURSIVE CStr(_)
CStr(b) ==
    IF Len(b) = 0 \/ b[1] = 0 THEN <<>> ELSE <<b[1]>> \o CStr(Drop(b, 1))

CharAt(s, i) == IF i <= Len(s) THEN s[i] ELSE 0

\* Variant: the comparison ends with the shorter string, so a query that
\* is a proper prefix of the name compares equal.
StrNCmpPrefix(field, s, n) ==
    \A i \in 1..Min(n, Len(s)) : field[i] = s[i]

\* strncmp(field, s, n) == 0, field a char array of at least n bytes and s
\* a C string: equal up to the first NUL or up to n characters.
StrNCmpEq(field, s, n) ==
    \A i \in 1..n :
        (\A j \in 1..(i - 1) : field[j] # 0) => field[i] = CharAt(s, i)

(***************************************************************************)
(* Common prelude of the four tools: read and validate the superblock,     *)
(* convert its fields, load the FAT into memory.  The in-memory FAT is the *)
(* raw big-endian bytes of the FAT region; every use goes through ntohl.   *)
(***************************************************************************)
\* Variant: the FAT is located and read before the identifier is compared.
LoadImageFatFirst(img) ==
    IF ~CanRead(img, 0, SuperSize)
    THEN [ok |-> FALSE, err |-> "superblock"]
    ELSE IF ~CanRead(img, Ntohl(SuperField(img, 1))
                              * Ntohs(ReadAt(img, MagicBytes, U16Bytes)),
                     U32(Ntohl(SuperField(img, 2))
                         * Ntohs(ReadAt(img, MagicBytes, U16Bytes))))
    THEN [ok |-> FALSE, err |-> "fat"]
    ELSE [ok |-> FALSE, err |-> "magic"]

LoadImage(img) ==
    IF ~CanRead(img, 0, SuperSize)
    THEN [ok |-> FALSE, err |-> "superblock"]
    ELSE IF ReadAt(img, 0, MagicBytes) # Magic
    THEN [ok |-> FALSE, err |-> "magic"]
    ELSE LET block_size  == Ntohs(ReadAt(img, MagicBytes, U16Bytes))
             block_count == Ntohl(SuperField(img, 0))
             fat_start   == Ntohl(SuperField(img, 1))
             fat_blocks  == Ntohl(SuperField(img, 2))
             root_start  == Ntohl(SuperField(img, 3))
             root_blocks == Ntohl(SuperField(img, 4))
             fat_entries == U32(fat_blocks * block_size) \div U32Bytes
             fat_offset  == fat_start * block_size
         IN  IF ~CanRead(img, fat_offset, fat_entries * U32Bytes)
             THEN [ok |-> FALSE, err |-> "fat"]
             ELSE [ok |-> TRUE, err |-> "",
                   block_size  |-> block_size,
                   block_count |-> block_count,
                   fat_start   |-> fat_start,
                   fat_blocks  |-> fat_blocks,
                   root_start  |-> root_start,
                   root_blocks |-> root_blocks,
                   fat_entries |-> fat_entries,
                   fat |-> ReadAt(img, fat_offset, fat_entries * U32Bytes)]

FatAt(fat, i) == Ntohl(SubSeq(fat, i * U32Bytes + 1, (i + 1) * U32Bytes))
FatPut(fat, i, v) == WriteAt(fat, i * U32Bytes, Htonl(v))

EntriesPerBlock(L) == L.block_size \div EntrySize
RootOffset(L) == L.root_start * L.block_size
RootEntries(L) == U32(L.root_blocks * L.block_size) \div EntrySize

(***************************************************************************)
(* Sequential scans of `count` directory records starting at byte `off`.   *)
(* The records are read one after the other; a short read ends the scan    *)
(* with an error unless an earlier record already ended it.                *)
(***************************************************************************)
MinOf(S) == CHOOSE x \in S : \A y \in S : x <= y

EntryAt(img, off, i) == DecodeEntry(ReadAt(img, off + i * EntrySize, EntrySize))

Readable(img, off, count) ==
    IF off >= Len(img) THEN 0 ELSE Min(count, (Len(img) - off) \div EntrySize)

\* Variant: the type bit of the record is not looked at.
MatchesAnyType(e, name, kind) ==
    /\ InUse(e)
    /\ StrNCmpEq(e.filename, name, CmpLen)

Matches(e, name, kind) ==
    /\ InUse(e)
    /\ IF kind = "file" THEN IsFile(e) ELSE IsDir(e)
    /\ StrNCmpEq(e.filename, name, CmpLen)

NoEntry == DecodeEntry(Fill(EntrySize, 0))

ScanDir(img, off, count, name, kind) ==
    LET Result(r, hits) ==
            IF hits # {}
            THEN [res |-> "found", idx |-> MinOf(hits),
                  entry |-> EntryAt(img, off, MinOf(hits))]
            ELSE IF r < count
            THEN [res |-> "ioerr", idx |-> r, entry |-> NoEntry]
            ELSE [res |-> "none", idx |-> count, entry |-> NoEntry]
        Scan(r) ==
            Result(r, {i \in 0..(r - 1) :
                          Matches(EntryAt(img, off, i), name, kind)})
    IN  Scan(Readable(img, off, count))

ScanFree(img, off, count) ==
    LET Result(r, hits) ==
            IF hits # {} THEN [res |-> "found", idx |-> MinOf(hits)]
            ELSE IF r < count THEN [res |-> "ioerr", idx |-> r]
            ELSE [res |-> "none", idx |-> count]
        Scan(r) == Result(r, {i \in 0..(r - 1) : ~InUse(EntryAt(img, off, i))})
    IN  Scan(Readable(img, off, count))

(***************************************************************************)
(* Walk of a directory chain looking for a name.  The loops of the source  *)
(* carry no hop counter.  A walk that has already visited fat_entries      *)
(* in-range blocks and stands on another one has visited some block twice; *)
(* nothing it reads changes between visits, so it repeats for ever:        *)
(* res = "hang" stands for the loop that never exits.                      *)
(***************************************************************************)
\* Variant: the walk does not compare the block number with the size of
\* the table.  What a read beyond the table yields is not defined; here it
\* ends the chain.
RECURSIVE ChainFindUnchecked(_, _, _, _, _, _)
ChainFindUnchecked(img, L, current, name, kind, hops) ==
    LET Mark(r) == [r EXCEPT !.derefs = @ \cup {current}]
        Step(sc, next) ==
            IF sc.res = "found"
            THEN [res |-> "found", entry |-> sc.entry, hops |-> hops,
                  derefs |-> {}]
            ELSE IF sc.res = "ioerr"
            THEN [res |-> "ioerr", entry |-> NoEntry, hops |-> hops,
                  derefs |-> {}]
            ELSE IF next = EOC
            THEN [res |-> "none", entry |-> NoEntry, hops |-> hops,
                  derefs |-> {current}]
            ELSE Mark(ChainFindUnchecked(img, L, next, name, kind, hops + 1))
    IN  IF hops >= L.fat_entries
        THEN [res |-> "hang", entry |-> NoEntry, hops |-> hops, derefs |-> {}]
        ELSE Step(ScanDir(img, current * L.block_size, EntriesPerBlock(L),
                          name, kind),
                  IF current < L.fat_entries THEN FatAt(L.fat, current)
                  ELSE EOC)

\* derefs: the indices at which the walk has read the in-memory FAT.
RECURSIVE ChainFind(_, _, _, _, _, _)
ChainFind(img, L, current, name, kind, hops) ==
    LET Mark(r) == [r EXCEPT !.derefs = @ \cup {current}]
        Step(sc, next) ==
            IF sc.res = "found"
            THEN [res |-> "found", entry |-> sc.entry, hops |-> hops,
                  derefs |-> {}]
            ELSE IF sc.res = "ioerr"
            THEN [res |-> "ioerr", entry |-> NoEntry, hops |-> hops,
                  derefs |-> {}]
            ELSE IF next = EOC
            THEN [res |-> "none", entry |-> NoEntry, hops |-> hops,
                  derefs |-> {current}]
            ELSE Mark(ChainFind(img, L, next, name, kind, hops + 1))
    IN  IF current >= L.fat_entries
        THEN [res |-> "range", entry |-> NoEntry, hops |-> hops,
              derefs |-> {}]
        ELSE IF hops >= L.fat_entries
        THEN [res |-> "hang", entry |-> NoEntry, hops |-> hops, derefs |-> {}]
        ELSE Step(ScanDir(img, current * L.block_size, EntriesPerBlock(L),
                          name, kind),
                  FatAt(L.fat, current))

\* strtok(p, "/"): the maximal runs of characters other than '/'.
RECURSIVE Tokens(_, _)
Tokens(s, cur) ==
    IF Len(s) = 0 THEN (IF Len(cur) = 0 THEN <<>> ELSE <<cur>>)
    ELSE IF s[1] = Slash
    THEN (IF Len(cur) = 0 THEN Tokens(Tail(s), <<>>)
          ELSE <<cur>> \o Tokens(Tail(s), <<>>))
    ELSE Tokens(Tail(s), Append(cur, s[1]))

\* The component loop of resolve_directory_path: `scans` counts the
\* directory searches made, `hops` the largest hop count of a chain walk.
RECURSIVE ResolveFrom(_, _, _, _, _, _, _)
ResolveFrom(img, L, comps, at_root, start, scans, hops) ==
    LET Searched(r) ==
            IF r.res = "found"
            THEN ResolveFrom(img, L, Tail(comps), FALSE,
                             Ntohl(r.entry.starting_block), scans + 1,
                             Max(hops, r.hops))
            ELSE [rc |-> 1, hang |-> r.res = "hang", is_root_dir |-> 0,
                  start_block |-> 0, scans |-> scans + 1,
                  hops |-> Max(hops, r.hops)]
    IN  IF Len(comps) = 0
        THEN [rc |-> IF at_root THEN 1 ELSE 0, hang |-> FALSE,
              is_root_dir |-> 0, start_block |-> start, scans |-> scans,
              hops |-> hops]
        ELSE Searched(IF at_root
                      THEN ScanDir(img, RootOffset(L), RootEntries(L),
                                   Head(comps), "dir") @@ [hops |-> 0]
                      ELSE ChainFind(img, L, start, Head(comps), "dir", 0))

ResolveDirectoryPath(img, L, dir_path) ==
    IF dir_path = <<Slash>> \/ Len(dir_path) = 0
    THEN [rc |-> 0, hang |-> FALSE, is_root_dir |-> 1, start_block |-> 0,
          scans |-> 0, hops |-> 0]
    ELSE IF dir_path[1] # Slash
    THEN [rc |-> 1, hang |-> FALSE, is_root_dir |-> 0, start_block |-> 0,
          scans |-> 0, hops |-> 0]
    ELSE ResolveFrom(img, L, Tokens(dir_path, <<>>), TRUE, 0, 0, 0)

FindFileInDirectoryChain(img, L, start_block, filename) ==
    ChainFind(img, L, start_block, filename, "file", 0)

(***************************************************************************)
(* disklist                                                                *)
(***************************************************************************)
\* Variant: the directory bit is tested before the file bit.
PrintDirFirst(e) ==
    IF ~InUse(e) THEN <<>>
    ELSE IF IsDir(e)
    THEN <<[type |-> "D", size |-> Ntohl(e.file_size),
            name |-> CStr(e.filename \o e.unused), time |-> e.create_time]>>
    ELSE IF IsFile(e)
    THEN <<[type |-> "F", size |-> Ntohl(e.file_size),
            name |-> CStr(e.filename \o e.unused), time |-> e.create_time]>>
    ELSE <<>>

\* print_dir_entry: the line printed for one record, if any.  printf("%s")
\* of the filename field reads up to the first NUL.
PrintDirEntry(e) ==
    IF ~InUse(e) THEN <<>>
    ELSE IF IsFile(e)
    THEN <<[type |-> "F", size |-> Ntohl(e.file_size),
            name |-> CStr(e.filename \o e.unused), time |-> e.create_time]>>
    ELSE IF IsDir(e)
    THEN <<[type |-> "D", size |-> Ntohl(e.file_size),
            name |-> CStr(e.filename \o e.unused), time |-> e.create_time]>>
    ELSE <<>>

RECURSIVE PrintEntries(_, _, _, _)
PrintEntries(img, off, i, n) ==
    IF i >= n THEN <<>>
    ELSE PrintDirEntry(EntryAt(img, off, i)) \o PrintEntries(img, off, i + 1, n)

\* The read-and-print loop over `count` records at `off`.
ListRegion(img, off, count) ==
    [lines |-> PrintEntries(img, off, 0, Readable(img, off, count)),
     ioerr |-> Readable(img, off, count) < count]

RECURSIVE ListDirectoryFromChain(_, _, _, _)
ListDirectoryFromChain(img, L, current, hops) ==
    LET Join(b, rest) ==
            [lines |-> b.lines \o rest.lines, res |-> rest.res,
             hops |-> rest.hops, derefs |-> rest.derefs \cup {current}]
        Step(b, next) ==
            IF b.ioerr
            THEN [lines |-> b.lines, res |-> "ioerr", hops |-> hops,
                  derefs |-> {}]
            ELSE IF next = EOC
            THEN [lines |-> b.lines, res |-> "done", hops |-> hops,
                  derefs |-> {current}]
            ELSE Join(b, ListDirectoryFromChain(img, L, next, hops + 1))
    IN  IF current >= L.fat_entries
        THEN [lines |-> <<>>, res |-> "range", hops |-> hops, derefs |-> {}]
        ELSE IF hops >= L.fat_entries
        THEN [lines |-> <<>>, res |-> "hang", hops |-> hops, derefs |-> {}]
        ELSE Step(ListRegion(img, current * L.block_size, EntriesPerBlock(L)),
                  FatAt(L.fat, current))

ToolResult(status, hang, out, err, hops) ==
    [status |-> status, hang |-> hang, out |-> out, err |-> err,
     hops |-> hops]

NoExit == 0 - 1

ListRoot(img, L) ==
    LET Listed(b) ==
            IF b.ioerr THEN ToolResult(1, FALSE, b.lines, "read", 0)
            ELSE ToolResult(0, FALSE, b.lines, "", 0)
    IN  Listed(ListRegion(img, RootOffset(L), RootEntries(L)))

DiskListMain(img, path) ==
    LET Listed(r, c) ==
            IF c.res = "hang"
            THEN ToolResult(NoExit, TRUE, c.lines, "", Max(r.hops, c.hops))
            ELSE ToolResult(0, FALSE, c.lines,
                            IF c.res = "done" THEN "" ELSE c.res,
                            Max(r.hops, c.hops))
        Resolved(L, r) ==
            IF r.hang THEN ToolResult(NoExit, TRUE, <<>>, "", r.hops)
            ELSE IF r.rc # 0
            THEN ToolResult(1, FALSE, <<>>, "notfound", r.hops)
            ELSE IF r.is_root_dir = 1 THEN ListRoot(img, L)
            ELSE Listed(r, ListDirectoryFromChain(img, L, r.start_block, 0))
        Loaded(L) ==
            IF ~L.ok THEN ToolResult(1, FALSE, <<>>, L.err, 0)
            ELSE IF path = <<Slash>> THEN ListRoot(img, L)
            ELSE IF CharAt(path, 1) # Slash
            THEN ToolResult(1, FALSE, <<>>, "path", 0)
            ELSE Resolved(L, ResolveDirectoryPath(img, L, path))
    IN  Loaded(LoadImage(img))

(***************************************************************************)
(* diskinfo                                                                *)
(***************************************************************************)
DiskInfoMain(img) ==
    LET Counted(L, idx) ==
            ToolResult(0, FALSE,
                [block_size |-> L.block_size, block_count |-> L.block_count,
                 fat_start |-> L.fat_start, fat_blocks |-> L.fat_blocks,
                 root_start |-> L.root_start, root_blocks |-> L.root_blocks,
                 free |-> Cardinality({i \in idx : FatAt(L.fat, i) = 0}),
                 reserved |-> Cardinality({i \in idx : FatAt(L.fat, i) = 1}),
                 allocated |->
                     Cardinality({i \in idx : FatAt(L.fat, i) \notin {0, 1}})],
                "", 0)
        Loaded(L) ==
            IF ~L.ok THEN ToolResult(1, FALSE, <<>>, L.err, 0)
            ELSE Counted(L, 0..(L.fat_entries - 1))
    IN  Loaded(LoadImage(img))

(***************************************************************************)
(* diskget                                                                 *)
(***************************************************************************)
\* strrchr(path, '/'): index of the last '/', 0 when there is none.
LastSlash(s) ==
    LET at == {i \in 1..Len(s) : s[i] = Slash}
    IN  IF at = {} THEN 0 ELSE CHOOSE i \in at : \A j \in at : j <= i

\* Split of a path into its directory part and a file name of at most n
\* characters.
SplitDir(path) ==
    IF LastSlash(path) <= 1 THEN <<Slash>>
    ELSE SubSeq(path, 1, LastSlash(path) - 1)
SplitName(path, n) == Take(Drop(path, LastSlash(path)), n)

\* Variant: every block is copied whole, the last one with its padding.
RECURSIVE CopyOutWhole(_, _, _, _, _, _)
CopyOutWhole(img, L, current, bytes_remaining, out, hops) ==
    IF bytes_remaining = 0 THEN [status |-> 0, hang |-> FALSE, out |-> out]
    ELSE IF current >= L.fat_entries
    THEN [status |-> 1, hang |-> FALSE, out |-> out]
    ELSE IF ~CanRead(img, current * L.block_size, L.block_size)
    THEN [status |-> 1, hang |-> FALSE, out |-> out]
    ELSE IF bytes_remaining <= L.block_size \/ FatAt(L.fat, current) = EOC
    THEN [status |-> 0, hang |-> FALSE,
          out |-> out \o ReadAt(img, current * L.block_size, L.block_size)]
    ELSE CopyOutWhole(img, L, FatAt(L.fat, current),
                      bytes_remaining - L.block_size,
                      out \o ReadAt(img, current * L.block_size, L.block_size),
                      hops + 1)

\* Variant: a chain that ends before the recorded size is an error.
RECURSIVE CopyOutStrict(_, _, _, _, _, _)
CopyOutStrict(img, L, current, bytes_remaining, out, hops) ==
    IF bytes_remaining = 0 THEN [status |-> 0, hang |-> FALSE, out |-> out]
    ELSE IF current >= L.fat_entries
    THEN [status |-> 1, hang |-> FALSE, out |-> out]
    ELSE IF ~CanRead(img, current * L.block_size,
                     Min(bytes_remaining, L.block_size))
    THEN [status |-> 1, hang |-> FALSE, out |-> out]
    ELSE IF bytes_remaining <= L.block_size
    THEN [status |-> 0, hang |-> FALSE,
          out |-> out \o ReadAt(img, current * L.block_size, bytes_remaining)]
    ELSE IF FatAt(L.fat, current) = EOC
    THEN [status |-> 1, hang |-> FALSE,
          out |-> out \o ReadAt(img, current * L.block_size, L.block_size)]
    ELSE CopyOutStrict(img, L, FatAt(L.fat, current),
                       bytes_remaining - L.block_size,
                       out \o ReadAt(img, current * L.block_size, L.block_size),
                       hops + 1)

\* Variant: the loop goes on until the chain's terminator, whatever the
\* number of bytes still wanted.
RECURSIVE CopyOutToSentinel(_, _, _, _, _, _)
CopyOutToSentinel(img, L, current, bytes_remaining, out, hops) ==
    IF current >= L.fat_entries
    THEN [status |-> 1, hang |-> FALSE, out |-> out, derefs |-> {},
          reads |-> hops]
    ELSE IF hops >= L.fat_entries
    THEN [status |-> NoExit, hang |-> TRUE, out |-> out, derefs |-> {},
          reads |-> hops]
    ELSE IF ~CanRead(img, current * L.block_size,
                     Min(bytes_remaining, L.block_size))
    THEN [status |-> 1, hang |-> FALSE, out |-> out, derefs |-> {},
          reads |-> hops + 1]
    ELSE IF FatAt(L.fat, current) = EOC
    THEN [status |-> 0, hang |-> FALSE,
          out |-> out \o ReadAt(img, current * L.block_size,
                                Min(bytes_remaining, L.block_size)),
          derefs |-> {current}, reads |-> hops + 1]
    ELSE CopyOutToSentinel(img, L, FatAt(L.fat, current),
                           bytes_remaining - Min(bytes_remaining, L.block_size),
                           out \o ReadAt(img, current * L.block_size,
                                         Min(bytes_remaining, L.block_size)),
                           hops + 1)

\* The copy loop: `out` is what has been written to the output file,
\* derefs the indices at which the loop has read the in-memory FAT.
RECURSIVE CopyOut(_, _, _, _, _, _)
CopyOut(img, L, current, bytes_remaining, out, hops) ==
    LET Mark(r) == [r EXCEPT !.derefs = @ \cup {current}]
    IN  IF bytes_remaining = 0
        THEN [status |-> 0, hang |-> FALSE, out |-> out, derefs |-> {},
              reads |-> hops]
        ELSE IF current >= L.fat_entries
        THEN [status |-> 1, hang |-> FALSE, out |-> out, derefs |-> {},
              reads |-> hops]
        ELSE IF hops >= L.fat_entries /\ L.block_size = 0
        THEN [status |-> NoExit, hang |-> TRUE, out |-> out, derefs |-> {},
              reads |-> hops]
        ELSE LET to_read == Min(bytes_remaining, L.block_size)
                 offset == current * L.block_size
                 next == FatAt(L.fat, current)
             IN  IF ~CanRead(img, offset, to_read)
                 THEN [status |-> 1, hang |-> FALSE, out |-> out,
                       derefs |-> {}, reads |-> hops + 1]
                 ELSE IF bytes_remaining - to_read = 0
                 THEN [status |-> 0, hang |-> FALSE,
                       out |-> out \o ReadAt(img, offset, to_read),
                       derefs |-> {}, reads |-> hops + 1]
                 ELSE IF next = EOC
                 THEN [status |-> 0, hang |-> FALSE,
                       out |-> out \o ReadAt(img, offset, to_read),
                       derefs |-> {current}, reads |-> hops + 1]
                 ELSE Mark(CopyOut(img, L, next, bytes_remaining - to_read,
                                   out \o ReadAt(img, offset, to_read),
                                   hops + 1))

GetResult(status, hang, created, out, err) ==
    [status |-> status, hang |-> hang, created |-> created, out |-> out,
     err |-> err, hops |-> 0]

DiskGetMain(img, src_path) ==
    LET dir_path == SplitDir(src_path)
        filename == SplitName(src_path, GetNameLen)
        Copied(c) ==
            GetResult(c.status, c.hang, TRUE, c.out,
                      IF c.status = 0 THEN "" ELSE "copy")
        Looked(L, r, f) ==
            IF f.res = "hang" THEN GetResult(NoExit, TRUE, FALSE, <<>>, "hang")
            ELSE IF f.res = "ioerr" /\ r.is_root_dir = 1
            THEN GetResult(1, FALSE, FALSE, <<>>, "read")
            ELSE IF f.res # "found"
            THEN GetResult(1, FALSE, FALSE, <<>>, "notfound")
            ELSE Copied(CopyOut(img, L, Ntohl(f.entry.starting_block),
                                Ntohl(f.entry.file_size), <<>>, 0))
        Resolved(L, r) ==
            IF r.hang THEN GetResult(NoExit, TRUE, FALSE, <<>>, "hang")
            ELSE IF r.rc # 0 THEN GetResult(1, FALSE, FALSE, <<>>, "notfound")
            ELSE Looked(L, r,
                        IF r.is_root_dir = 1
                        THEN ScanDir(img, RootOffset(L), RootEntries(L),
                                     filename, "file")
                        ELSE FindFileInDirectoryChain(img, L, r.start_block,
                                                      filename))
        Loaded(L) ==
            IF ~L.ok THEN GetResult(1, FALSE, FALSE, <<>>, L.err)
            ELSE Resolved(L, ResolveDirectoryPath(img, L, dir_path))
    IN  Loaded(LoadImage(img))

(***************************************************************************)
(* diskput                                                                 *)
(***************************************************************************)
\* The image file together with the log of the writes made to it by the
\* running tool, in order.
FWrite(d, off, bytes, tag) ==
    [img |-> WriteAt(d.img, off, bytes),
     log |-> Append(d.log, [tag |-> tag, off |-> off, len |-> Len(bytes)])]

\* Variant: the table is scanned from its last entry down.
RECURSIVE CollectFreeDown(_, _, _, _)
CollectFreeDown(fat, fat_entries, i, need) ==
    IF i >= fat_entries \/ need = 0 THEN <<>>
    ELSE IF FatAt(fat, fat_entries - 1 - i) = 0
    THEN <<fat_entries - 1 - i>>
            \o CollectFreeDown(fat, fat_entries, i + 1, need - 1)
    ELSE CollectFreeDown(fat, fat_entries, i + 1, need)

\* Variant: an entry marked reserved is taken like a free one.
RECURSIVE CollectFreeOrReserved(_, _, _, _)
CollectFreeOrReserved(fat, fat_entries, i, need) ==
    IF i >= fat_entries \/ need = 0 THEN <<>>
    ELSE IF FatAt(fat, i) <= 1
    THEN <<i>> \o CollectFreeOrReserved(fat, fat_entries, i + 1, need - 1)
    ELSE CollectFreeOrReserved(fat, fat_entries, i + 1, need)

\* The scan loop of allocate_blocks: the first `need` free indices from i on.
RECURSIVE CollectFree(_, _, _, _)
CollectFree(fat, fat_entries, i, need) ==
    IF i >= fat_entries \/ need = 0 THEN <<>>
    ELSE IF FatAt(fat, i) = 0
    THEN <<i>> \o CollectFree(fat, fat_entries, i + 1, need - 1)
    ELSE CollectFree(fat, fat_entries, i + 1, need)

\* Variant: the last block of the chain is left without the terminator.
RECURSIVE LinkChainOpen(_, _, _)
LinkChainOpen(fat, out_blocks, j) ==
    IF j >= Len(out_blocks) THEN fat
    ELSE LinkChainOpen(FatPut(fat, out_blocks[j], out_blocks[j + 1]),
                       out_blocks, j + 1)

\* The link loop of allocate_blocks.
RECURSIVE LinkChain(_, _, _)
LinkChain(fat, out_blocks, j) ==
    IF j > Len(out_blocks) THEN fat
    ELSE LinkChain(FatPut(fat, out_blocks[j],
                          IF j < Len(out_blocks) THEN out_blocks[j + 1]
                          ELSE EOC),
                   out_blocks, j + 1)

\* Variant: the entries found are linked although they are too few.
AllocateBlocksPartial(fat, fat_entries, blocks_needed) ==
    LET out_blocks == CollectFree(fat, fat_entries, 0, blocks_needed)
    IN  IF Len(out_blocks) < blocks_needed
        THEN [rc |-> 1, fat |-> LinkChain(fat, out_blocks, 1), blocks |-> <<>>]
        ELSE [rc |-> 0, fat |-> LinkChain(fat, out_blocks, 1),
              blocks |-> out_blocks]

\* allocate_blocks: rc, the table after the call and out_blocks.
AllocateBlocks(fat, fat_entries, blocks_needed) ==
    LET out_blocks == CollectFree(fat, fat_entries, 0, blocks_needed)
    IN  IF Len(out_blocks) < blocks_needed
        THEN [rc |-> 1, fat |-> fat, blocks |-> <<>>]
        ELSE [rc |-> 0, fat |-> LinkChain(fat, out_blocks, 1),
              blocks |-> out_blocks]

\* Variant: the padding is left as the initializer {0} made it.
NewEntryZeroPad(status, start, count, size, name) ==
    [status         |-> status,
     starting_block |-> Htonl(start),
     block_count    |-> Htonl(count),
     file_size      |-> Htonl(size),
     create_time    |-> Fill(TimeBytes, 0),
     modify_time    |-> Fill(TimeBytes, 0),
     filename       |-> name,
     unused         |-> Fill(UnusedBytes, 0)]

\* A record as diskput builds it: dir_entry_t e = {0}, the fields assigned
\* and the padding set to 0xFF.
NewEntry(status, start, count, size, name) ==
    [status         |-> status,
     starting_block |-> Htonl(start),
     block_count    |-> Htonl(count),
     file_size      |-> Htonl(size),
     create_time    |-> Fill(TimeBytes, 0),
     modify_time    |-> Fill(TimeBytes, 0),
     filename       |-> name,
     unused         |-> Fill(UnusedBytes, 255)]

EnsureResult(rc, hang, d, fat, is_root_dir, start_block, dirblocks, inserted, err) ==
    [rc |-> rc, hang |-> hang, d |-> d, fat |-> fat,
     is_root_dir |-> is_root_dir, start_block |-> start_block,
     dirblocks |-> dirblocks, inserted |-> inserted, err |-> err]

\* The creation branch of ensure_simple_subdir_exists.
CreateSubdir(d, L, dir_path) ==
    LET dirname == Take(Drop(dir_path, 1), DirNameLen)
        DirBlockOf(new_block) ==
            Take(EncodeEntry(NewEntry(5, new_block, 1, 0,
                                      StrNCpy(<<Dot>>, 1, NameField)))
                    \o Fill(EntriesPerBlock(L) * EntrySize, 0),
                 EntriesPerBlock(L) * EntrySize)
        NewDir(new_block) ==
            NewEntry(5, new_block, 1, 0, StrNCpy(dirname, DirNameLen, NameField))
        Resolved(a, d2, r2) ==
            EnsureResult(IF r2.rc # 0 THEN 1 ELSE 0, r2.hang, d2, a.fat,
                         r2.is_root_dir, r2.start_block, a.blocks, TRUE,
                         IF r2.rc # 0 THEN "dirlost" ELSE "")
        Inserted(a, d2) ==
            Resolved(a, d2, ResolveDirectoryPath(d2.img, [L EXCEPT !.fat = a.fat],
                                                 dir_path))
        Slotted(a, d1, slot) ==
            IF slot.res # "found"
            THEN EnsureResult(1, FALSE, d1, a.fat, 0, 0, a.blocks, FALSE,
                              IF slot.res = "none" THEN "dirrootfull"
                              ELSE "read")
            ELSE Inserted(a, FWrite(d1, RootOffset(L) + slot.idx * EntrySize,
                                    EncodeEntry(NewDir(a.blocks[1])),
                                    "rootentry"))
        Written(a, d1) ==
            Slotted(a, d1, ScanFree(d1.img, RootOffset(L), RootEntries(L)))
        Allocated(a) ==
            IF a.rc # 0
            THEN EnsureResult(1, FALSE, d, a.fat, 0, 0, <<>>, FALSE, "dirnospace")
            ELSE Written(a, FWrite(d, a.blocks[1] * L.block_size,
                                   DirBlockOf(a.blocks[1]), "dirblock"))
    IN  Allocated(AllocateBlocks(L.fat, L.fat_entries, 1))

\* Variant: a path of several components that does not resolve is created
\* like a simple one.
EnsureAnyDepth(d, L, dir_path) ==
    LET Resolved(r) ==
            IF r.rc = 0
            THEN EnsureResult(0, FALSE, d, L.fat, r.is_root_dir, r.start_block,
                              <<>>, FALSE, "")
            ELSE CreateSubdir(d, L, dir_path)
    IN  IF dir_path = <<Slash>> \/ Len(dir_path) = 0
        THEN EnsureResult(0, FALSE, d, L.fat, 1, 0, <<>>, FALSE, "")
        ELSE IF dir_path[1] # Slash
        THEN EnsureResult(1, FALSE, d, L.fat, 0, 0, <<>>, FALSE, "path")
        ELSE Resolved(ResolveDirectoryPath(d.img, L, dir_path))

EnsureSimpleSubdirExists(d, L, dir_path) ==
    LET Resolved(r) ==
            IF \E i \in 2..Len(dir_path) : dir_path[i] = Slash
            THEN EnsureResult(r.rc, r.hang, d, L.fat, r.is_root_dir,
                              r.start_block, <<>>, FALSE,
                              IF r.rc # 0 THEN "notfound" ELSE "")
            ELSE IF r.rc = 0
            THEN EnsureResult(0, FALSE, d, L.fat, r.is_root_dir, r.start_block,
                              <<>>, FALSE, "")
            ELSE CreateSubdir(d, L, dir_path)
    IN  IF dir_path = <<Slash>> \/ Len(dir_path) = 0
        THEN EnsureResult(0, FALSE, d, L.fat, 1, 0, <<>>, FALSE, "")
        ELSE IF dir_path[1] # Slash
        THEN EnsureResult(1, FALSE, d, L.fat, 0, 0, <<>>, FALSE, "path")
        ELSE Resolved(ResolveDirectoryPath(d.img, L, dir_path))

\* Variant: the table is flushed twice.
WriteFatTwice(d, fat, L, fault) ==
    FWrite(FWrite(d, L.fat_start * L.block_size, fat, "fat"),
           L.fat_start * L.block_size, fat, "fat")

\* write_fat; `fault` is what the C library does to its seek and its write:
\* "seek" fails the fseek, "short" lets fwrite store only fault.items items.
WriteFat(d, fat, L, fault) ==
    IF fault.kind = "seek" THEN d
    ELSE IF fault.kind = "short"
    THEN FWrite(d, L.fat_start * L.block_size,
                Take(fat, Min(fault.items, L.fat_entries) * U32Bytes), "fat")
    ELSE FWrite(d, L.fat_start * L.block_size, fat, "fat")

\* Variant: the division rounds down.
BlocksNeededFloor(src_size, block_size) ==
    IF U32(src_size) \div block_size = 0 THEN 1
    ELSE U32(src_size) \div block_size

BlocksNeeded(src_size, block_size) ==
    IF U32(src_size + block_size - 1) \div block_size = 0 THEN 1
    ELSE U32(src_size + block_size - 1) \div block_size

\* The data loop of diskput: block i of the chain receives the next
\* min(bytes_remaining, block_size) source bytes, zero padded to a block.
RECURSIVE WriteBlocks(_, _, _, _, _, _)
WriteBlocks(d, L, blocks, i, data, consumed) ==
    IF i > Len(blocks) THEN d
    ELSE LET to_read == Min(Len(data) - consumed, L.block_size)
             buffer == SubSeq(data, consumed + 1, consumed + to_read)
                          \o Fill(L.block_size - to_read, 0)
         IN  WriteBlocks(FWrite(d, blocks[i] * L.block_size, buffer, "data"),
                         L, blocks, i + 1, data, consumed + to_read)

\* The free-slot loop of diskput over a subdirectory chain; a block is read
\* whole before its slots are examined.
RECURSIVE ChainFree(_, _, _, _)
ChainFree(img, L, current, hops) ==
    LET Mark(r) == [r EXCEPT !.derefs = @ \cup {current}]
    IN  IF current >= L.fat_entries
        THEN [res |-> "range", pos |-> 0, hops |-> hops, derefs |-> {}]
        ELSE IF hops >= L.fat_entries
        THEN [res |-> "hang", pos |-> 0, hops |-> hops, derefs |-> {}]
        ELSE LET offset == current * L.block_size
                 epb == EntriesPerBlock(L)
                 free == {i \in 0..(epb - 1) :
                             ~InUse(EntryAt(img, offset, i))}
                 next == FatAt(L.fat, current)
             IN  IF Readable(img, offset, epb) < epb
                 THEN [res |-> "ioerr", pos |-> 0, hops |-> hops,
                       derefs |-> {}]
                 ELSE IF free # {}
                 THEN [res |-> "found",
                       pos |-> offset + MinOf(free) * EntrySize,
                       hops |-> hops, derefs |-> {}]
                 ELSE IF next = EOC
                 THEN [res |-> "none", pos |-> 0, hops |-> hops,
                       derefs |-> {current}]
                 ELSE Mark(ChainFree(img, L, next, hops + 1))

\* What a diskput run leaves: its exit status, the image, and the values of
\* its locals at exit (the in-memory FAT, the blocks allocated for the file
\* and for a new directory).
PutResult(status, hang, d, err, blocks, e, fat, hops) ==
    [status |-> status, hang |-> hang, img |-> d.img, out |-> <<>>,
     err |-> err, hops |-> hops, log |-> d.log, blocks |-> blocks,
     dirblocks |-> e.dirblocks, inserted |-> e.inserted, fat |-> fat,
     created |-> FALSE]

NoEnsure == [dirblocks |-> <<>>, inserted |-> FALSE]

\* diskput_main from the allocation of the file's blocks on.
StoreFile(e, L, filename, data, fault) ==
    LET src_size == U32(Len(data))
        blocks_needed == BlocksNeeded(src_size, L.block_size)
        NewFile(a) ==
            NewEntry(3, a.blocks[1], blocks_needed, src_size,
                     StrNCpy(filename, PutNameLen, NameField))
        Finish(a, d2, hops) ==
            PutResult(0, FALSE, WriteFat(d2, a.fat, L, fault), "", a.blocks, e,
                      a.fat, hops)
        InRoot(a, d1, rslot) ==
            IF rslot.res # "found"
            THEN PutResult(1, FALSE, d1,
                           IF rslot.res = "none" THEN "rootfull" ELSE "read",
                           a.blocks, e, a.fat, 0)
            ELSE Finish(a, FWrite(d1, RootOffset(L) + rslot.idx * EntrySize,
                                  EncodeEntry(NewFile(a)), "entry"), 0)
        InChain(a, d1, cslot) ==
            IF cslot.res = "hang"
            THEN PutResult(NoExit, TRUE, d1, "", a.blocks, e, a.fat, cslot.hops)
            ELSE IF cslot.res # "found"
            THEN PutResult(1, FALSE, d1,
                           IF cslot.res = "none" THEN "subdirfull"
                           ELSE cslot.res,
                           a.blocks, e, a.fat, cslot.hops)
            ELSE Finish(a, FWrite(d1, cslot.pos, EncodeEntry(NewFile(a)),
                                  "entry"), cslot.hops)
        Written(a, d1) ==
            IF e.is_root_dir = 1
            THEN InRoot(a, d1, ScanFree(d1.img, RootOffset(L), RootEntries(L)))
            ELSE InChain(a, d1, ChainFree(d1.img, [L EXCEPT !.fat = a.fat],
                                          e.start_block, 0))
        Allocated(a) ==
            IF a.rc # 0
            THEN PutResult(1, FALSE, e.d, "nospace", <<>>, e, a.fat, 0)
            ELSE Written(a, WriteBlocks(e.d, L, a.blocks, 1, data, 0))
    IN  Allocated(AllocateBlocks(L.fat, L.fat_entries, blocks_needed))

DiskPutMain(img, tgt_path, data, fault) ==
    LET d0 == [img |-> img, log |-> <<>>]
        dir_path == SplitDir(tgt_path)
        filename == SplitName(tgt_path, PutNameLen)
        Ensured(L, e) ==
            IF e.hang
            THEN PutResult(NoExit, TRUE, e.d, "", <<>>, e, e.fat, L.fat_entries)
            ELSE IF e.rc # 0
            THEN PutResult(1, FALSE, e.d, e.err, <<>>, e, e.fat, 0)
            ELSE StoreFile(e, [L EXCEPT !.fat = e.fat], filename, data, fault)
        Loaded(L) ==
            IF ~L.ok THEN PutResult(1, FALSE, d0, L.err, <<>>, NoEnsure, <<>>, 0)
            ELSE Ensured(L, EnsureSimpleSubdirExists(d0, L, dir_path))
    IN  Loaded(LoadImage(img))

(***************************************************************************)
(* Images.  Geometry as mkfs lays it out: block 0 holds the superblock,    *)
(* the FAT follows, then the root region, then the data blocks.  The FAT   *)
(* entries of the superblock, FAT and root blocks, and those beyond the    *)
(* last block of the image, are reserved.                                  *)
(***************************************************************************)
BlockSize == 26
FatStart == 1
FatBlocks == 1
RootBlocks == 2
DataBlocks == 6
MaxOps == 2

RootStart == FatStart + FatBlocks
DataStart == RootStart + RootBlocks
BlockCount == DataStart + DataBlocks
FatEntries == (FatBlocks * BlockSize) \div U32Bytes
RootSlots == (RootBlocks * BlockSize) \div EntrySize
SlotsPerBlock == BlockSize \div EntrySize

\* Source bytes of a host file of n bytes.
Data(n) == [i \in 1..n |-> 1 + (i % 7)]

Pad(bytes, n) == bytes \o Fill(n - Len(bytes), 0)

RECURSIVE Flatten(_)
Flatten(ss) == IF Len(ss) = 0 THEN <<>> ELSE Head(ss) \o Flatten(Tail(ss))

Name(s) == StrNCpy(s, NameField, NameField)
FileEntry(name, start, count, size) == NewEntry(3, start, count, size, Name(name))
DirEntry(name, start, count) == NewEntry(5, start, count, 0, Name(name))
FreeEntry == NoEntry

\* A block of directory records, the unused slots free.
DirBlock(entries) ==
    Pad(Flatten([i \in 1..Len(entries) |-> EncodeEntry(entries[i])]), BlockSize)

\* An image from the values of the data blocks' FAT entries (fatv[k] for
\* block DataStart + k - 1), the root records and the data blocks.
MkImage(fatv, root, blocks) ==
    Pad(EncodeSuper(BlockSize, BlockCount, FatStart, FatBlocks, RootStart,
                    RootBlocks), FatStart * BlockSize)
    \o Pad(Flatten([i \in 1..FatEntries |->
                      Htonl(IF i - 1 >= DataStart /\ i - 1 < BlockCount
                            THEN fatv[i - DataStart] ELSE 1)]),
           FatBlocks * BlockSize)
    \o Pad(Flatten([i \in 1..Len(root) |-> EncodeEntry(root[i])]),
           RootBlocks * BlockSize)
    \o Flatten([k \in 1..DataBlocks |-> blocks[k]])

Blk(k) == DataStart + k - 1
ZeroBlock == Fill(BlockSize, 0)
DataBlock(n) == Pad(Data(n), BlockSize)

cd == <<100>>
ce == <<101>>
cf == <<102>>
cg == <<103>>
ch == <<104>>
cs == <<115>>
ci == <<105>>
cx == <<120>>
cy == <<121>>
cabc == <<97, 98, 99>>
P(names) == Flatten([i \in 1..Len(names) |-> <<Slash>> \o names[i]])

\* A freshly formatted image.
ImgFresh ==
    MkImage([k \in 1..DataBlocks |-> 0], <<>>,
            [k \in 1..DataBlocks |-> ZeroBlock])

\* /d (two blocks) holding /d/s and the file /d/h, and the file /g in root;
\* the last data blocks are free.
\* fat3 and fat4 are the FAT entries of the second block of /d and of the
\* block of /d/s; hstatus and xstatus the status bytes of the two records
\* in the second block of /d.
TreeImage(fat3, fat4, hstatus, xstatus) ==
    MkImage([k \in 1..DataBlocks |->
                IF k = 1 THEN Blk(3)
                ELSE IF k = 3 THEN fat3
                ELSE IF k = 4 THEN fat4
                ELSE IF k \in {2, 5} THEN EOC ELSE 0],
            <<DirEntry(cd, Blk(1), 2), FileEntry(cg, Blk(2), 1, 3)>>,
            [k \in 1..DataBlocks |->
                IF k = 1
                THEN DirBlock(<<DirEntry(<<Dot>>, Blk(1), 2),
                                DirEntry(cs, Blk(4), 1)>>)
                ELSE IF k = 2 THEN DataBlock(3)
                ELSE IF k = 3
                THEN DirBlock(<<NewEntry(hstatus, Blk(5), 1, 2, Name(ch)),
                                NewEntry(xstatus, Blk(6), 1, 0, Name(cx))>>)
                ELSE IF k = 4 THEN DirBlock(<<DirEntry(<<Dot>>, Blk(4), 1)>>)
                ELSE IF k = 5 THEN DataBlock(2)
                ELSE ZeroBlock])

ImgTree == TreeImage(EOC, EOC, 3, 0)

\* Root with `used` one-block files in its first slots, the first of them
\* followed by `extra` more blocks.
RootFiles(used, extra) ==
    MkImage([k \in 1..DataBlocks |->
                IF k = 1 /\ extra > 0 THEN Blk(used + 1)
                ELSE IF k <= used THEN EOC
                ELSE IF k < used + extra THEN Blk(k + 1)
                ELSE IF k = used + extra THEN EOC
                ELSE 0],
            [i \in 1..used |->
                FileEntry(<<104 + i>>, Blk(i),
                          IF i = 1 THEN 1 + extra ELSE 1, 1)],
            [k \in 1..DataBlocks |->
                IF k <= used THEN DataBlock(1) ELSE ZeroBlock])

\* Root full, the remaining data blocks free.
ImgRootFull == RootFiles(RootSlots, 0)

\* One free root slot and one free data block.
ImgTight == RootFiles(RootSlots - 1, DataBlocks - RootSlots)

\* The files /g and /h in root, free blocks before, between and after
\* theirs: an image from which files have been removed.
ImgGaps ==
    MkImage([k \in 1..DataBlocks |-> IF k \in {2, 4} THEN EOC ELSE 0],
            <<FileEntry(cg, Blk(2), 1, 3), FileEntry(ch, Blk(4), 1, 2)>>,
            [k \in 1..DataBlocks |->
                IF k = 2 THEN DataBlock(3)
                ELSE IF k = 4 THEN DataBlock(2)
                ELSE ZeroBlock])

\* Names that fill the filename field, no terminator after them: the
\* directory /abc and the file /abc in root beside the file /ab, and the
\* file /abc/abc after `.` in the one block of the directory.
cab == <<97, 98>>
cabd == <<97, 98, 100>>
cabcd == <<97, 98, 99, 100>>
ImgNames ==
    MkImage([k \in 1..DataBlocks |-> IF k <= 4 THEN EOC ELSE 0],
            <<DirEntry(cabc, Blk(1), 1), FileEntry(cabc, Blk(2), 1, 3),
              FileEntry(cab, Blk(4), 1, 1)>>,
            [k \in 1..DataBlocks |->
                IF k = 1
                THEN DirBlock(<<DirEntry(<<Dot>>, Blk(1), 1),
                                FileEntry(cabc, Blk(3), 1, 2)>>)
                ELSE IF k = 2 THEN DataBlock(3)
                ELSE IF k = 3 THEN DataBlock(2)
                ELSE IF k = 4 THEN DataBlock(1)
                ELSE ZeroBlock])

InitImages == {ImgFresh, ImgTree, ImgRootFull, ImgTight, ImgGaps}

\* Images no tool of this repository writes: the chain of /d runs back to
\* its first block and the entry of the block of /d/s points to itself, /d
\* being full; records whose status byte has the in-use bit alone, or both
\* type bits.
ImgCycle == TreeImage(Blk(1), Blk(4), 3, 5)
ImgOdd == TreeImage(EOC, EOC, 1, 7)

\* The chain of /d leaves the FAT after its second block and the chain of
\* /d/s runs on to a block beyond the end of the image.
ImgBroken == TreeImage(FatEntries + 1, BlockCount + 1, 3, 0)

\* The first file of root records more bytes than its chain of three blocks
\* holds; the second block of the chain is filled with nines.
ImgShort ==
    WriteAt(WriteAt(ImgTight, RootStart * BlockSize + OffSize,
                    Htonl(3 * BlockSize + 5)),
            Blk(RootSlots) * BlockSize, Fill(BlockSize, 9))

\* ImgBroken in a file that goes on beyond the blocks its superblock counts:
\* zero-filled blocks up to numbers the FAT has no entry for.
ImgLong == ImgBroken \o Fill((FatEntries + 3 - BlockCount) * BlockSize, 0)

\* Images whose identifier is not the tag: the last byte wrong, the first
\* byte wrong, and a file that ends with its superblock, so that a read of
\* the FAT would fail.
ImgBadLast == WriteAt(ImgTree, MagicBytes - 1, <<Magic[MagicBytes] + 32>>)
ImgBadFirst == WriteAt(ImgFresh, 0, <<0>>)
ImgBadCut == Take(ImgBadLast, SuperSize)
MagicImages == {ImgBadLast, ImgBadFirst, ImgBadCut}

\* File chains that do not end: the chain of /g runs from its second block
\* back to its first, /g recording more than three blocks of bytes; the
\* block of /f is free in the FAT, so that its chain runs on through
\* entry 0 to the reserved entries.
ImgLoop ==
    MkImage([k \in 1..DataBlocks |->
                IF k = 2 THEN Blk(4) ELSE IF k = 4 THEN Blk(2) ELSE 0],
            <<FileEntry(cg, Blk(2), 2, 3 * BlockSize + 1),
              FileEntry(cf, Blk(1), 1, 3 * BlockSize)>>,
            [k \in 1..DataBlocks |->
                IF k = 2 THEN DataBlock(BlockSize)
                ELSE IF k = 4 THEN Fill(BlockSize, 9)
                ELSE IF k = 1 THEN Fill(BlockSize, 8)
                ELSE ZeroBlock])

CorruptImages == {ImgCycle, ImgOdd, ImgBroken, ImgShort, ImgLong}

\* A FAT with more entries than the image has blocks, the entries beyond
\* the last block zero as a zero-filled table leaves them.
Slack(img) ==
    WriteAt(img, FatStart * BlockSize + BlockCount * U32Bytes,
            Fill((FatEntries - BlockCount) * U32Bytes, 0))
SlackImages == {Slack(ImgTight), Slack(ImgFresh)}

(***************************************************************************)
(* Invocations.  `prev` is the image as the last invocation found it and   *)
(* `run` what that invocation was given and what it did.                   *)
(***************************************************************************)
NoFault == [kind |-> "none", items |-> 0]
Faults == {NoFault, [kind |-> "seek", items |-> 0],
           [kind |-> "short", items |-> DataStart + 1]}

Sizes == {0, 1, BlockSize - 1, BlockSize, BlockSize + 1, 2 * BlockSize}

PutInputs ==
    ({P(<<cf>>), P(<<ce, cf>>)} \X Sizes)
    \cup ({P(<<cd, cf>>), P(<<cd, cs, cf>>), P(<<cx, cy, cf>>), P(<<cabc>>),
           P(<<cabc, cf>>), P(<<cg>>), P(<<ce>>), cf, ce \o P(<<cf>>)}
          \X {1, BlockSize + 1})

GetPaths ==
    {p[1] : p \in PutInputs} \cup {P(<<cd, ch>>), P(<<cd>>), P(<<ci>>)}
ListPaths == {<<Slash>>, P(<<cd>>), P(<<cd, cs>>), P(<<ce>>), P(<<cg>>), cd}

NoRun ==
    [tool |-> "none", path |-> <<>>, data |-> <<>>, fault |-> NoFault,
     status |-> 0, hang |-> FALSE, out |-> <<>>, err |-> "", hops |-> 0,
     log |-> <<>>, blocks |-> <<>>, dirblocks |-> <<>>, inserted |-> FALSE,
     fat |-> <<>>, created |-> FALSE]

Ran(tool, path, data, fault, r) ==
    [tool |-> tool, path |-> path, data |-> data, fault |-> fault,
     status |-> r.status, hang |-> r.hang, out |-> r.out, err |-> r.err,
     hops |-> r.hops, log |-> r.log, blocks |-> r.blocks,
     dirblocks |-> r.dirblocks, inserted |-> r.inserted, fat |-> r.fat,
     created |-> r.created]

ReadOnly(r) ==
    r @@ [log |-> <<>>, blocks |-> <<>>, dirblocks |-> <<>>,
          inserted |-> FALSE, fat |-> <<>>, created |-> FALSE]

(***************************************************************************)
(* ssi, the interactive shell.  The shell is one sequential process: `pc`  *)
(* is its position in main's loop or in run_foreground.  Its children run  *)
(* concurrently with it; proc[p] is the child with process id p, if any.   *)
(* A process id is not given to a new child before the old one has been    *)
(* waited for.  A command line is its argv; a string of several words is   *)
(* the sequence of the words and the blanks between them.                  *)
(*                                                                         *)
(* hist, seen and the serial numbers are history variables: hist[s] is     *)
(* what became of the s-th child forked, seen the children that had        *)
(* terminated when the shell last came back to the top of its loop.        *)
(***************************************************************************)
MaxPids == 2
MaxForks == 3

Pids == 1..MaxPids

NoProc == [state |-> "none", kind |-> "none", sig |-> "none", serial |-> 0]
NoHist ==
    [pid |-> 0, args |-> <<>>, kind |-> "none", reaped |-> FALSE,
     early |-> FALSE, reports |-> 0]
NoOut ==
    [kind |-> "none", pid |-> 0, cmd |-> <<>>, serial |-> 0, lines |-> <<>>,
     total |-> 0]

\* join_argv(argv, start, argc); argv[i] of the source is argv[i + 1] here.
RECURSIVE JoinArgv(_, _, _)
JoinArgv(argv, i, argc) ==
    IF i >= argc THEN <<>>
    ELSE <<argv[i + 1]>> \o (IF i + 1 < argc THEN <<" ">> ELSE <<>>)
            \o JoinArgv(argv, i + 1, argc)

\* Variant: the new record replaces the list.
AddJobAlone(js, pid, cmdline) == <<[pid |-> pid, cmdline |-> cmdline]>>

\* add_job: the new record becomes the head of the list.
AddJob(js, pid, cmdline) == <<[pid |-> pid, cmdline |-> cmdline]>> \o js

\* remove_job: unlinks the first record with that pid, handing out its
\* command line.
RemoveJob(js, pid) ==
    LET Unlink(at) ==
            IF at = {} THEN [found |-> 0, cmd |-> <<>>, jobs |-> js]
            ELSE [found |-> 1, cmd |-> js[MinOf(at)].cmdline,
                  jobs |-> SubSeq(js, 1, MinOf(at) - 1)
                              \o SubSeq(js, MinOf(at) + 1, Len(js))]
    IN  Unlink({i \in 1..Len(js) : js[i].pid = pid})

\* print_bglist: one line per record, head first, then the count.
PrintBglist(js) ==
    [kind |-> "bglist", pid |-> 0, cmd |-> <<>>, serial |-> 0,
     lines |-> [i \in 1..Len(js) |-> [pid |-> js[i].pid, cmd |-> js[i].cmdline]],
     total |-> Len(js)]

\* handle_builtin: the builtin a command line names, if any.
HandleBuiltin(argv) ==
    IF Len(argv) = 0 THEN "empty"
    ELSE IF argv[1] = "cd" THEN "cd"
    ELSE IF argv[1] = "bg" THEN "bg"
    ELSE IF argv[1] = "bglist" THEN "bglist"
    ELSE "none"

\* Variant: waitpid hands out any child, terminated or not.
WaitableAny(pr) == {p \in Pids : pr[p].state # "none"}

\* The children waitpid(-1, WNOHANG) can return: those that have terminated
\* and have not been waited for.
Waitable(pr) == {p \in Pids : pr[p].state = "zombie"}

FreePids(pr) == {p \in Pids : pr[p].state = "none"}

\* What fork can return to the parent: 0 stands for its failure.
ForkResults(pr, n) == {0} \cup (IF n < MaxForks THEN FreePids(pr) ELSE {})

\* Variant: the child leaves the disposition it inherited.
ChildKeepsSigint(inherited) == inherited

\* The child's sigaction(SIGINT, SIG_DFL) before execvp.
ChildSigint(inherited) == "default"

ZombieSerials(pr) == {pr[p].serial : p \in Waitable(pr)}

Lines ==
    {<<>>, <<"cd">>, <<"bg">>, <<"bg", "a">>, <<"bg", "b", "c">>,
     <<"bglist">>, <<"ls">>}

ShellInit ==
    /\ pc = "reap"
    /\ jobs = <<>>
    /\ proc = [p \in Pids |-> NoProc]
    /\ sigint = "handler"
    /\ oldint = "handler"
    /\ fgpid = 0
    /\ fgargv = <<>>
    /\ said = NoOut
    /\ nforks = 0
    /\ hist = [s \in 1..MaxForks |-> NoHist]
    /\ seen = {}

\* One turn of the loop of reap_background in which waitpid returns p.
ReapOne(p) ==
    LET Removed(r) ==
            /\ jobs' = r.jobs
            /\ said' = IF r.found = 1
                      THEN [kind |-> "report", pid |-> p, cmd |-> r.cmd,
                            serial |-> proc[p].serial, lines |-> <<>>,
                            total |-> 0]
                      ELSE NoOut
            /\ hist' = [hist EXCEPT ![proc[p].serial] =
                           [@ EXCEPT !.reaped = TRUE,
                                     !.early = proc[p].state # "zombie",
                                     !.reports = @ + r.found]]
    IN  /\ pc = "reap"
        /\ p \in Waitable(proc)
        /\ Removed(RemoveJob(jobs, p))
        /\ proc' = [proc EXCEPT ![p] = NoProc]
        /\ UNCHANGED <<pc, sigint, oldint, fgpid, fgargv, nforks, seen>>
        /\ UNCHANGED diskvars

\* waitpid returns 0 or -1: reap_background returns, the prompt is shown
\* and readline waits for a line.
ReapDone ==
    /\ pc = "reap"
    /\ Waitable(proc) = {}
    /\ pc' = "prompt"
    /\ said' = NoOut
    /\ UNCHANGED <<jobs, proc, sigint, oldint, fgpid, fgargv, nforks, hist,
                   seen>>
    /\ UNCHANGED diskvars

\* readline returns NULL.
ReadEof ==
    /\ pc = "prompt"
    /\ pc' = "exited"
    /\ said' = NoOut
    /\ UNCHANGED <<jobs, proc, sigint, oldint, fgpid, fgargv, nforks, hist,
                   seen>>
    /\ UNCHANGED diskvars

\* An empty line, or cd: back to the top of the loop.
SkipLine(argv) ==
    /\ pc = "prompt"
    /\ HandleBuiltin(argv) \in {"empty", "cd"}
    /\ pc' = "reap"
    /\ seen' = ZombieSerials(proc)
    /\ said' = NoOut
    /\ UNCHANGED <<jobs, proc, sigint, oldint, fgpid, fgargv, nforks, hist>>
    /\ UNCHANGED diskvars

\* builtin_bg; child is what fork returns.
BuiltinBg(argv, child) ==
    /\ pc = "prompt"
    /\ HandleBuiltin(argv) = "bg"
    /\ child \in ForkResults(proc, nforks)
    /\ Len(argv) < 2 => child = 0
    /\ IF Len(argv) < 2 \/ child = 0
       THEN UNCHANGED <<jobs, proc, nforks, hist>>
       ELSE /\ proc' = [proc EXCEPT ![child] =
                           [state |-> "forked", kind |-> "bg", sig |-> sigint,
                            serial |-> nforks + 1]]
            /\ jobs' = AddJob(jobs, child, JoinArgv(argv, 1, Len(argv)))
            /\ nforks' = nforks + 1
            /\ hist' = [hist EXCEPT ![nforks + 1] =
                           [NoHist EXCEPT !.pid = child, !.args = Tail(argv),
                                          !.kind = "bg"]]
    /\ pc' = "reap"
    /\ seen' = ZombieSerials(proc)
    /\ said' = NoOut
    /\ UNCHANGED <<sigint, oldint, fgpid, fgargv>>
    /\ UNCHANGED diskvars

\* builtin_bglist
BuiltinBglist(argv) ==
    /\ pc = "prompt"
    /\ HandleBuiltin(argv) = "bglist"
    /\ said' = PrintBglist(jobs)
    /\ pc' = "reap"
    /\ seen' = ZombieSerials(proc)
    /\ UNCHANGED <<jobs, proc, sigint, oldint, fgpid, fgargv, nforks, hist>>
    /\ UNCHANGED diskvars

\* run_foreground up to its fork: the shell ignores SIGINT, keeping the
\* disposition it had.
RunForeground(argv) ==
    /\ pc = "prompt"
    /\ HandleBuiltin(argv) = "none"
    /\ fgargv' = argv
    /\ oldint' = sigint
    /\ sigint' = "ignore"
    /\ pc' = "fg_fork"
    /\ said' = NoOut
    /\ UNCHANGED <<jobs, proc, fgpid, nforks, hist, seen>>
    /\ UNCHANGED diskvars

\* The fork of run_foreground: on failure the disposition is put back and
\* the function returns, otherwise the parent goes on to wait.
FgFork(child) ==
    /\ pc = "fg_fork"
    /\ child \in ForkResults(proc, nforks)
    /\ IF child = 0
       THEN /\ sigint' = oldint
            /\ pc' = "reap"
            /\ seen' = ZombieSerials(proc)
            /\ fgargv' = <<>>
            /\ UNCHANGED <<proc, fgpid, nforks, hist>>
       ELSE /\ proc' = [proc EXCEPT ![child] =
                           [state |-> "forked", kind |-> "fg", sig |-> sigint,
                            serial |-> nforks + 1]]
            /\ fgpid' = child
            /\ nforks' = nforks + 1
            /\ hist' = [hist EXCEPT ![nforks + 1] =
                           [NoHist EXCEPT !.pid = child, !.args = fgargv,
                                          !.kind = "fg"]]
            /\ pc' = "fg_wait"
            /\ UNCHANGED <<sigint, seen, fgargv>>
    /\ UNCHANGED <<jobs, oldint, said>>
    /\ UNCHANGED diskvars

\* Variant: the wait does not block, it returns for a child still running.
WaitNoHang(pr, pid) == pr[pid].state # "none"

\* waitpid(pid, &status, 0) returns pid: the child has terminated and has
\* not been waited for.  Until then the call blocks.
WaitReturns(pr, pid) == pr[pid].state = "zombie"

\* waitpid(pid) returns the foreground child, which has terminated.  A
\* waitpid interrupted by a signal is called again and changes nothing.
FgWaited ==
    /\ pc = "fg_wait"
    /\ WaitReturns(proc, fgpid)
    /\ proc' = [proc EXCEPT ![fgpid] = NoProc]
    /\ hist' = [hist EXCEPT ![proc[fgpid].serial] =
                   [@ EXCEPT !.reaped = TRUE,
                             !.early = proc[fgpid].state # "zombie"]]
    /\ sigint' = oldint
    /\ fgpid' = 0
    /\ fgargv' = <<>>
    /\ pc' = "reap"
    /\ seen' = ZombieSerials(proc')
    /\ UNCHANGED <<jobs, oldint, said, nforks>>
    /\ UNCHANGED diskvars

\* waitpid(pid) fails for another reason than EINTR: perror, and the loop
\* is left.  The call blocks as long as the child runs; for a child of the
\* caller its only other failure is ECHILD, made once the child has
\* terminated and the system has discarded it unwaited (SIGCHLD ignored).
FgWaitError ==
    /\ pc = "fg_wait"
    /\ proc[fgpid].state = "zombie"
    /\ proc' = [proc EXCEPT ![fgpid] = NoProc]
    /\ said' = [NoOut EXCEPT !.kind = "perror"]
    /\ sigint' = oldint
    /\ fgpid' = 0
    /\ fgargv' = <<>>
    /\ pc' = "reap"
    /\ seen' = ZombieSerials(proc')
    /\ UNCHANGED <<jobs, oldint, nforks, hist>>
    /\ UNCHANGED diskvars

\* The child between fork and execvp.
ChildSigaction(p) ==
    /\ proc[p].state = "forked"
    /\ proc' = [proc EXCEPT ![p].state = "reset",
                            ![p].sig = ChildSigint(proc[p].sig)]
    /\ UNCHANGED <<pc, jobs, sigint, oldint, fgpid, fgargv, said, nforks, hist,
                   seen>>
    /\ UNCHANGED diskvars

\* execvp: the program runs, or the call fails and the child _exits.
ChildExec(p, ok) ==
    /\ proc[p].state = "reset"
    /\ proc' = [proc EXCEPT ![p].state = IF ok THEN "running" ELSE "zombie"]
    /\ UNCHANGED <<pc, jobs, sigint, oldint, fgpid, fgargv, said, nforks, hist,
                   seen>>
    /\ UNCHANGED diskvars

\* The program of the child ends.
ChildExit(p) ==
    /\ proc[p].state = "running"
    /\ proc' = [proc EXCEPT ![p].state = "zombie"]
    /\ UNCHANGED <<pc, jobs, sigint, oldint, fgpid, fgargv, said, nforks, hist,
                   seen>>
    /\ UNCHANGED diskvars

\* Ctrl-C at the terminal: SIGINT goes to the shell and to all its
\* children.  It ends those whose disposition is the default one.
CtrlC ==
    /\ pc # "exited"
    /\ \E p \in Pids : proc[p].state \in {"reset", "running"}
    /\ proc' = [p \in Pids |->
                   IF proc[p].state \in {"reset", "running"}
                        /\ proc[p].sig = "default"
                   THEN [proc[p] EXCEPT !.state = "zombie"]
                   ELSE proc[p]]
    /\ UNCHANGED <<pc, jobs, sigint, oldint, fgpid, fgargv, said, nforks, hist,
                   seen>>
    /\ UNCHANGED diskvars

NextShell ==
    \/ \E p \in Pids : ReapOne(p)
    \/ ReapDone
    \/ ReadEof
    \/ \E argv \in Lines : SkipLine(argv)
    \/ \E argv \in Lines, child \in {0} \cup Pids : BuiltinBg(argv, child)
    \/ \E argv \in Lines : BuiltinBglist(argv)
    \/ \E argv \in Lines : RunForeground(argv)
    \/ \E child \in {0} \cup Pids : FgFork(child)
    \/ FgWaited
    \/ FgWaitError
    \/ \E p \in Pids : ChildSigaction(p)
    \/ \E p \in Pids, ok \in BOOLEAN : ChildExec(p, ok)
    \/ \E p \in Pids : ChildExit(p)
    \/ CtrlC

\* calc holds the last evaluation of diskput's block count taken by itself:
\* the size of the source, the block size of the image and blocks_needed.
NoCalc == [src_size |-> 0, block_size |-> 0, blocks_needed |-> 0]

Init ==
    /\ image \in InitImages
    /\ prev = image
    /\ run = NoRun
    /\ nops = 0
    /\ calc = NoCalc
    /\ ShellInit

DiskPut(path, size, fault) ==
    LET Exit(r) ==
            /\ image' = r.img
            /\ run' = Ran("diskput", path, Data(size), fault, r)
    IN  /\ nops < MaxOps
        /\ Exit(DiskPutMain(image, path, Data(size), fault))
        /\ prev' = image
        /\ nops' = nops + 1
        /\ UNCHANGED calc
        /\ UNCHANGED shellvars

DiskGet(path) ==
    /\ nops < MaxOps
    /\ run' = Ran("diskget", path, <<>>, NoFault,
                  ReadOnly(DiskGetMain(image, path)))
    /\ image' = image
    /\ prev' = image
    /\ nops' = nops + 1
    /\ UNCHANGED calc
    /\ UNCHANGED shellvars

DiskList(path) ==
    /\ nops < MaxOps
    /\ run' = Ran("disklist", path, <<>>, NoFault,
                  ReadOnly(DiskListMain(image, path)))
    /\ image' = image
    /\ prev' = image
    /\ nops' = nops + 1
    /\ UNCHANGED calc
    /\ UNCHANGED shellvars

DiskInfo ==
    /\ nops < MaxOps
    /\ run' = Ran("diskinfo", <<>>, <<>>, NoFault,
                  ReadOnly(DiskInfoMain(image)))
    /\ image' = image
    /\ prev' = image
    /\ nops' = nops + 1
    /\ UNCHANGED calc
    /\ UNCHANGED shellvars

Next ==
    \/ \E in \in PutInputs, fault \in Faults : DiskPut(in[1], in[2], fault)
    \/ \E path \in GetPaths : DiskGet(path)
    \/ \E path \in ListPaths : DiskList(path)
    \/ DiskInfo

Spec == Init /\ [][Next]_vars

InitCorrupt ==
    /\ image \in CorruptImages
    /\ prev = image
    /\ run = NoRun
    /\ nops = 0
    /\ calc = NoCalc
    /\ ShellInit

SpecCorrupt == InitCorrupt /\ [][Next]_vars

\* The shell alone, no disk tool being run.
InitShell ==
    /\ image = ImgFresh
    /\ prev = image
    /\ run = NoRun
    /\ nops = 0
    /\ calc = NoCalc
    /\ ShellInit

SpecShell == InitShell /\ [][NextShell]_vars

\* The block count of diskput by itself, for sources up to the largest
\* size the size field holds and for block sizes the block_size field
\* holds: src_size is the uint32_t the size was stored in (line 997).
SrcSizes ==
    {0, 1, 2, BlockSize - 1, BlockSize, BlockSize + 1, 2 * BlockSize,
     2 * BlockSize + 1, 255, 256, 257, Word \div 2, Word - 256, Word - 255,
     Word - BlockSize - 1, Word - BlockSize, Word - BlockSize + 1, Word - 2,
     Word - 1}
BlockSizes == {1, 2, EntrySize, BlockSize, BlockSize + 1, 255}

CalcBlocks(src_size, block_size) ==
    /\ calc' = [src_size |-> src_size, block_size |-> block_size,
                blocks_needed |-> BlocksNeeded(src_size, block_size)]
    /\ UNCHANGED <<image, prev, run, nops>>
    /\ UNCHANGED shellvars

NextCalc == \E src_size \in SrcSizes, block_size \in BlockSizes :
                CalcBlocks(src_size, block_size)

SpecCalc == InitShell /\ [][NextCalc]_vars

\* Lookups by name on an image whose names fill the filename field: diskget
\* and diskput with queries shorter than, as long as and longer than the
\* field.
NamePaths ==
    {P(<<cabc>>), P(<<cabd>>), P(<<cab>>), P(<<cabcd>>), P(<<cabc, cabc>>),
     P(<<cabc, cabd>>), P(<<cabcd, cabcd>>), P(<<cab, cabc>>)}

NamePuts == {P(<<cf>>), P(<<cabc, cf>>), P(<<cabd, cf>>)} \X {1, BlockSize + 1}

InitNames ==
    /\ image = ImgNames
    /\ prev = image
    /\ run = NoRun
    /\ nops = 0
    /\ calc = NoCalc
    /\ ShellInit

NextNames ==
    \/ \E path \in NamePaths : DiskGet(path)
    \/ \E in \in NamePuts, fault \in Faults : DiskPut(in[1], in[2], fault)

SpecNames == InitNames /\ [][NextNames]_vars

\* diskget with the image file itself named as its output file.  Nothing
\* compares the two paths.  When the file is found, fopen(out_path, "wb")
\* empties the image file, which is still open for reading; the copy loop
\* then reads from it what the stream still holds buffered, `kept` blocks
\* at most, and fails on the first read that has to go to the emptied
\* file.  What has been copied is the image file's content at exit.
DiskGetOnto(path, kept) ==
    LET Exit(r, copied) ==
            /\ image' = (IF r.created THEN copied ELSE image)
            /\ run' = Ran("diskget", path, <<>>, NoFault,
                          ReadOnly([r EXCEPT
                              !.status = IF r.created /\ copied # r.out
                                         THEN 1 ELSE @,
                              !.err = IF r.created /\ copied # r.out
                                      THEN "copy" ELSE @,
                              !.out = IF r.created THEN copied ELSE @]))
        Run(r) == Exit(r, Take(r.out, Min(kept * BlockSize, Len(r.out))))
    IN  /\ nops < MaxOps
        /\ Run(DiskGetMain(image, path))
        /\ prev' = image
        /\ nops' = nops + 1
        /\ UNCHANGED calc
        /\ UNCHANGED shellvars

MaxKept == 2

NextAlias ==
    \/ Next
    \/ \E path \in GetPaths, kept \in 0..MaxKept : DiskGetOnto(path, kept)

SpecAlias == Init /\ [][NextAlias]_vars

\* The four tools on an image whose file chains do not end.
InitLoop ==
    /\ image = ImgLoop
    /\ prev = image
    /\ run = NoRun
    /\ nops = 0
    /\ calc = NoCalc
    /\ ShellInit

SpecLoop == InitLoop /\ [][Next]_vars

\* The four tools on images whose FAT has free entries beyond the last
\* block.
InitSlack ==
    /\ image \in SlackImages
    /\ prev = image
    /\ run = NoRun
    /\ nops = 0
    /\ calc = NoCalc
    /\ ShellInit

SpecSlack == InitSlack /\ [][Next]_vars

\* The four tools on images that are not CSC360FS images.
InitMagic ==
    /\ image \in MagicImages
    /\ prev = image
    /\ run = NoRun
    /\ nops = 0
    /\ calc = NoCalc
    /\ ShellInit

SpecMagic == InitMagic /\ [][Next]_vars

(***************************************************************************)
(* What an image holds, read independently of the tools' loops: used to    *)
(* state the properties.                                                   *)
(***************************************************************************)
TreeDepth == 3

FatOf(img) == LoadImage(img).fat
FatCount(img) == LoadImage(img).fat_entries
FreeSet(fat) == {i \in 0..((Len(fat) \div U32Bytes) - 1) : FatAt(fat, i) = 0}
FreeCount(fat) == Cardinality(FreeSet(fat))
SeqSet(q) == {q[i] : i \in 1..Len(q)}

\* The blocks of the chain that starts at cur, in order; ok when the chain
\* reaches the terminator without leaving the table or meeting a block twice.
RECURSIVE ChainWalk(_, _, _, _)
ChainWalk(fat, n, cur, acc) ==
    IF cur >= n \/ cur \in SeqSet(acc) THEN [ok |-> FALSE, blocks |-> acc]
    ELSE IF FatAt(fat, cur) = EOC THEN [ok |-> TRUE, blocks |-> Append(acc, cur)]
    ELSE ChainWalk(fat, n, FatAt(fat, cur), Append(acc, cur))

ChainOf(img, start) == ChainWalk(FatOf(img), FatCount(img), start, <<>>)

EntryOff(img, o) == DecodeEntry(ReadAt(img, o, EntrySize))
StartOf(img, o) == Ntohl(EntryOff(img, o).starting_block)
IsDot(e) == CStr(e.filename) = <<Dot>>

\* Offsets of the records of a region, in order, and of those in use.
SlotsAt(img, off, count) ==
    [i \in 1..Readable(img, off, count) |-> off + (i - 1) * EntrySize]
UsedAt(img, off, count) ==
    {o \in SeqSet(SlotsAt(img, off, count)) : InUse(EntryOff(img, o))}

\* Offsets of the records of the directory whose chain starts at `start`,
\* in chain order then slot order.
ChainSlots(img, start) ==
    LET L == LoadImage(img)
        c == ChainOf(img, start)
    IN  Flatten([i \in 1..Len(c.blocks) |->
                    SlotsAt(img, c.blocks[i] * L.block_size, EntriesPerBlock(L))])
RootSlotsOf(img) ==
    SlotsAt(img, RootOffset(LoadImage(img)), RootEntries(LoadImage(img)))

RECURSIVE TreeOffsets(_, _, _)
TreeOffsets(img, start, fuel) ==
    LET here == {o \in SeqSet(ChainSlots(img, start)) : InUse(EntryOff(img, o))}
        subs == {o \in here : IsDir(EntryOff(img, o)) /\ ~IsDot(EntryOff(img, o))}
    IN  here \cup (IF fuel = 0 THEN {}
                   ELSE UNION {TreeOffsets(img, StartOf(img, o), fuel - 1) : o \in subs})

\* Offsets of all in-use records reachable from the root region.
AllEntryOffsets(img) ==
    LET root == {o \in SeqSet(RootSlotsOf(img)) : InUse(EntryOff(img, o))}
    IN  root \cup UNION {TreeOffsets(img, StartOf(img, o), TreeDepth) :
                            o \in {r \in root : IsDir(EntryOff(img, r))}}

\* An image as mkfs and error-free runs of the tools leave it.
WellFormed(img) ==
    LET L == LoadImage(img)
        first == L.root_start + L.root_blocks
        offs == AllEntryOffsets(img)
        named == {o \in offs : ~IsDot(EntryOff(img, o))}
        Ch(o) == ChainOf(img, StartOf(img, o))
    IN  /\ L.ok
        /\ Len(img) = L.block_count * L.block_size
        /\ \A i \in 0..(L.fat_entries - 1) :
              IF i < first \/ i >= L.block_count THEN FatAt(L.fat, i) = 1
              ELSE FatAt(L.fat, i) # 1
        /\ \A o \in offs :
              /\ IsFile(EntryOff(img, o)) # IsDir(EntryOff(img, o))
              /\ Ch(o).ok
              /\ \A b \in SeqSet(Ch(o).blocks) : b >= first /\ b < L.block_count
              /\ Len(Ch(o).blocks) = Ntohl(EntryOff(img, o).block_count)
              /\ Ntohl(EntryOff(img, o).file_size)
                    <= Len(Ch(o).blocks) * L.block_size
        /\ \A o1, o2 \in named :
              o1 # o2 => SeqSet(Ch(o1).blocks) \cap SeqSet(Ch(o2).blocks) = {}


(***************************************************************************)
(* Properties.                                                             *)
(***************************************************************************)
IsPut == run.tool = "diskput"
PutOk == IsPut /\ run.status = 0
PutFailed == IsPut /\ run.status = 1

\* Blocks a file of `size` bytes needs.
K(size) == IF size = 0 THEN 1 ELSE (size + BlockSize - 1) \div BlockSize

\* Offset of the record diskput wrote for the file.
NewEntryOff == run.log[CHOOSE i \in 1..Len(run.log) : run.log[i].tag = "entry"].off

FullFatWrite ==
    [tag |-> "fat", off |-> FatStart * BlockSize, len |-> FatEntries * U32Bytes]

\* C1: round trip.  From a well-formed image, whenever diskput returns 0
\* for the bytes D stored under a path P that named no file before (its FAT
\* write-back undisturbed), a following diskget of P returns 0 and outputs
\* exactly D.
C1_RoundTrip ==
    (PutOk /\ run.fault = NoFault /\ WellFormed(prev)
        /\ DiskGetMain(prev, run.path).status # 0) =>
        /\ DiskGetMain(image, run.path).status = 0
        /\ DiskGetMain(image, run.path).out = run.data

StoredFat(old, mem, fault) ==
    IF fault.kind = "none" THEN mem
    ELSE IF fault.kind = "seek" THEN old
    ELSE Take(mem, fault.items * U32Bytes) \o Drop(old, fault.items * U32Bytes)

C3_WalksTerminate == ~run.hang

\* Blocks an in-use record of the image leads to: the blocks of the walk
\* from its starting block.
Referenced(img) ==
    UNION { SeqSet(ChainOf(img, StartOf(img, o)).blocks) :
              o \in { q \in AllEntryOffsets(img) : InUse(EntryOff(img, q)) } }

C5_OutOfSpaceBeforeWrites ==
    (PutFailed /\ run.err \in {"nospace", "dirnospace"}) =>
        /\ run.log = <<>>
        /\ image = prev

\* C6: diskput returns 0 only if write_fat stored all fat_entries entries.
C6_NoPartialSuccess ==
    PutOk =>
        /\ Len(run.log) > 0
        /\ run.log[Len(run.log)] = FullFatWrite
        /\ FatOf(image) = run.fat

\* C7: after a diskput that allocated blocks and exited with a failure,
\* every block it allocated is free in the on-disk FAT and no in-use
\* directory record leads to it.
C7_FailedRunLeavesBlocksFree ==
    PutFailed =>
        \A b \in SeqSet(run.blocks) \cup SeqSet(run.dirblocks) :
            /\ FatAt(FatOf(image), b) = 0
            /\ b \notin Referenced(image)

RootIsFull(img) == \A o \in SeqSet(RootSlotsOf(img)) : InUse(EntryOff(img, o))

\* The put must insert into root: the target is a file in root, or its
\* directory is a single component that names no directory of root.
IntoRoot(img, path) ==
    LET comps == Tokens(SplitDir(path), <<>>)
    IN  \/ comps = <<>>
        \/ /\ Len(comps) = 1
           /\ ~ \E o \in SeqSet(RootSlotsOf(img)) :
                  /\ InUse(EntryOff(img, o))
                  /\ IsDir(EntryOff(img, o))
                  /\ StrNCmpEq(EntryOff(img, o).filename, comps[1], CmpLen)

\* C8: with every root slot in use, a diskput that must insert into root
\* does not return 0, and every directory record and the on-disk FAT are
\* the same before and after.
C8_DirectoryFull ==
    (IsPut /\ LoadImage(prev).ok /\ RootIsFull(prev)
        /\ IntoRoot(prev, run.path)) =>
        /\ run.status # 0
        /\ FatOf(image) = FatOf(prev)
        /\ \A o \in AllEntryOffsets(prev) :
              ReadAt(image, o, EntrySize) = ReadAt(prev, o, EntrySize)

\* An in-use, directory-typed record whose name is the component c, names
\* compared as far as the width of the filename field.
IsDirNamed(e, c) ==
    InUse(e) /\ IsDir(e) /\ CStr(e.filename) = Take(c, NameField)

RootDirsNamed(img, c) ==
    {o \in SeqSet(RootSlotsOf(img)) : IsDirNamed(EntryOff(img, o), c)}

\* Positions, in the chain of the directory that starts at `start`, of the
\* directory records named c.
ChainDirsNamed(img, start, c) ==
    {i \in 1..Len(ChainSlots(img, start)) :
        IsDirNamed(EntryOff(img, ChainSlots(img, start)[i]), c)}

ResolvePaths ==
    ListPaths \cup {<<>>, <<Slash, Slash>>, P(<<cd, ch>>), P(<<cx>>),
                    P(<<cd, cx>>), P(<<cg, cs>>), P(<<ce, cs>>)}

ResolveOn(img, p) == ResolveDirectoryPath(img, LoadImage(img), p)

\* C9: resolving "" or "/" gives root without a directory scan; a path
\* whose first component names no in-use directory record of root fails;
\* /a succeeds only with the starting block of the directory record a of
\* root, /a/b only with the starting block of a directory record b found in
\* the chain of that a.  A record without the directory bit never
\* satisfies a component.
C9_PathResolution ==
    LoadImage(image).ok =>
    \A p \in ResolvePaths :
        LET r == ResolveOn(image, p)
            comps == Tokens(p, <<>>)
            roots == RootDirsNamed(image, comps[1])
            a == StartOf(image, MinOf(roots))
            hits == ChainDirsNamed(image, a, comps[2])
        IN  /\ (p = <<>> \/ p = <<Slash>>) =>
                  r.rc = 0 /\ r.is_root_dir = 1 /\ r.scans = 0
            /\ (p # <<>> /\ p # <<Slash>>
                  /\ (comps = <<>> \/ roots = {})) => r.rc # 0
            /\ (Len(comps) = 1 /\ r.rc = 0) =>
                  roots # {} /\ r.is_root_dir = 0 /\ r.start_block = a
            /\ (Len(comps) = 2 /\ r.rc = 0) =>
                  /\ roots # {}
                  /\ hits # {}
                  /\ r.is_root_dir = 0
                  /\ r.start_block
                        = StartOf(image, ChainSlots(image, a)[MinOf(hits)])

\* C9 witness: disklist resolved /d/s to the starting block of s, and the
\* same directory holds a file whose name, as a component, is refused.
C9_Witness ==
    /\ run.tool = "disklist" /\ run.path = P(<<cd, cs>>) /\ run.status = 0
    /\ ResolveOn(image, P(<<cd, cs>>)).rc = 0
    /\ ResolveOn(image, P(<<cd, cs>>)).start_block = Blk(4)
    /\ ResolveOn(image, P(<<cd, cs>>)).scans = 2
    /\ DiskGetMain(image, P(<<cd, ch>>)).status = 0
    /\ ResolveOn(image, P(<<cd, ch>>)).rc = 1

\* The records disklist walks for a path, in on-disk order.
ListedSlots(img, path) ==
    IF path = <<Slash>> \/ ResolveOn(img, path).is_root_dir = 1
    THEN RootSlotsOf(img)
    ELSE ChainSlots(img, ResolveOn(img, path).start_block)

EntriesOf(img, slots) == [i \in 1..Len(slots) |-> EntryOff(img, slots[i])]
HasType(e) == IsFile(e) \/ IsDir(e)
UsedEntry(e) == InUse(e)
ShownEntry(e) == InUse(e) /\ HasType(e)

ListedAll == run.tool = "disklist" /\ run.status = 0 /\ run.err = ""

\* C10 as stated: a complete disklist prints one line for every in-use
\* record and none for the others, in on-disk order, F exactly when the
\* file bit is set and D exactly when the directory bit is set.
C10_PerBits ==
    ListedAll =>
        LET es == SelectSeq(EntriesOf(image, ListedSlots(image, run.path)),
                            UsedEntry)
        IN  /\ Len(run.out) = Len(es)
            /\ \A i \in 1..Len(es) :
                  /\ run.out[i].time = es[i].create_time
                  /\ run.out[i].size = Ntohl(es[i].file_size)
                  /\ (run.out[i].type = "F") = IsFile(es[i])
                  /\ (run.out[i].type = "D") = IsDir(es[i])

\* C10 (amended): a complete disklist prints one line for every in-use
\* record that has the file or the directory bit set and none for any
\* other record, in on-disk order, F when the file bit is set and D when
\* the directory bit is set and the file bit is clear.
C10_Listing ==
    ListedAll =>
        LET es == SelectSeq(EntriesOf(image, ListedSlots(image, run.path)),
                            ShownEntry)
        IN  /\ Len(run.out) = Len(es)
            /\ \A i \in 1..Len(es) :
                  /\ run.out[i].time = es[i].create_time
                  /\ run.out[i].size = Ntohl(es[i].file_size)
                  /\ run.out[i].type = IF IsFile(es[i]) THEN "F" ELSE "D"

\* C10 witness: a complete listing, over a chain of two blocks, of a
\* directory that holds an in-use record with both type bits and an in-use
\* record with neither.
C10_Witness ==
    /\ ListedAll
    /\ run.hops = 1
    /\ \E e \in SeqSet(EntriesOf(image, ListedSlots(image, run.path))) :
          InUse(e) /\ IsFile(e) /\ IsDir(e)
    /\ \E e \in SeqSet(EntriesOf(image, ListedSlots(image, run.path))) :
          InUse(e) /\ ~HasType(e)
    /\ Len(run.out) = 3

\* The record diskget copies from: the first matching file record of the
\* directory its path resolves to.
GetLookup(img, path) ==
    LET L == LoadImage(img)
        r == ResolveDirectoryPath(img, L, SplitDir(path))
    IN  IF r.is_root_dir = 1
        THEN ScanDir(img, RootOffset(L), RootEntries(L),
                     SplitName(path, GetNameLen), "file")
        ELSE FindFileInDirectoryChain(img, L, r.start_block,
                                      SplitName(path, GetNameLen))

GotFile == run.tool = "diskget" /\ run.created
GotSize == Ntohl(GetLookup(image, run.path).entry.file_size)
GotStart == Ntohl(GetLookup(image, run.path).entry.starting_block)

\* The first `need` blocks of the chain that starts at cur; ok when the FAT
\* names that many without leaving the table or ending earlier.
RECURSIVE ChainPrefix(_, _, _, _)
ChainPrefix(fat, n, cur, need) ==
    IF need = 0 THEN [ok |-> TRUE, blocks |-> <<>>]
    ELSE IF cur >= n THEN [ok |-> FALSE, blocks |-> <<>>]
    ELSE IF need > 1 /\ FatAt(fat, cur) = EOC
    THEN [ok |-> FALSE, blocks |-> <<cur>>]
    ELSE [ok |-> ChainPrefix(fat, n, FatAt(fat, cur), need - 1).ok,
          blocks |-> <<cur>> \o
                     ChainPrefix(fat, n, FatAt(fat, cur), need - 1).blocks]

\* The first `size` bytes of the blocks, taken block by block in order.
FileBytes(img, blocks, size) ==
    Flatten([i \in 1..Len(blocks) |->
                ReadAt(img, blocks[i] * BlockSize,
                       Min(BlockSize, size - (i - 1) * BlockSize))])

InImage(img, blocks) ==
    \A b \in SeqSet(blocks) : CanRead(img, b * BlockSize, BlockSize)

\* C11: when the record diskget found has size S and its chain names at
\* least ceil(S / block_size) blocks, diskget returns 0 and outputs exactly
\* S bytes: block_size bytes of each chain block in chain order, from the
\* last block only the remaining bytes, without padding.
C11_ExtractSizeOrder ==
    (GotFile
        /\ ChainPrefix(FatOf(image), FatEntries, GotStart,
                       (GotSize + BlockSize - 1) \div BlockSize).ok) =>
        LET blocks == ChainPrefix(FatOf(image), FatEntries, GotStart,
                                  (GotSize + BlockSize - 1) \div BlockSize).blocks
        IN  /\ run.status = 0
            /\ InImage(image, blocks)
            /\ Len(run.out) = GotSize
            /\ run.out = FileBytes(image, blocks, GotSize)

\* C11 witness: diskget copied a file of block_size + 1 bytes that the
\* preceding diskput had stored in two blocks.
C11_Witness ==
    /\ GotFile /\ run.status = 0
    /\ GotSize = BlockSize + 1
    /\ Len(run.out) = BlockSize + 1
    /\ ChainOf(image, GotStart).ok
    /\ Len(ChainOf(image, GotStart).blocks) = 2

\* C12: when the chain of the record diskget found reaches the terminator
\* after m blocks and m * block_size is less than the recorded size,
\* diskget outputs exactly the m * block_size bytes of those blocks, in
\* chain order, and returns 0.
C12_ShortChainTolerated ==
    (GotFile /\ ChainOf(image, GotStart).ok
        /\ Len(ChainOf(image, GotStart).blocks) * BlockSize < GotSize) =>
        LET blocks == ChainOf(image, GotStart).blocks
        IN  /\ run.status = 0
            /\ InImage(image, blocks)
            /\ Len(run.out) = Len(blocks) * BlockSize
            /\ run.out = FileBytes(image, blocks, Len(blocks) * BlockSize)

\* C12 witness: diskget returned 0 with three blocks of output for a file
\* that records five bytes more.
C12_Witness ==
    /\ GotFile /\ run.status = 0
    /\ Len(ChainOf(image, GotStart).blocks) = 3
    /\ GotSize = 3 * BlockSize + 5
    /\ Len(run.out) = 3 * BlockSize

\* C13: a disklist whose listing of a subdirectory stops at a FAT index out
\* of range, or at a record it cannot read, returns non-zero.
C13_ListAbortNonZero ==
    (run.tool = "disklist" /\ run.err \in {"range", "ioerr"}) =>
        run.status # 0

\* An in-use, file-typed record whose name is that of the path.
IsFileNamed(e, path) ==
    InUse(e) /\ IsFile(e)
        /\ CStr(e.filename) = Take(Drop(path, LastSlash(path)), NameField)

\* The path names no file: its directory part does not resolve, or the
\* directory it resolves to holds no in-use file record of that name.
NamesNoFile(img, path) ==
    \/ ResolveOn(img, SplitDir(path)).rc # 0
    \/ \A o \in SeqSet(ListedSlots(img, SplitDir(path))) :
           ~IsFileNamed(EntryOff(img, o), path)

\* C14: when the source path names no file, diskget exits with a non-zero
\* status and has not opened, truncated or written the output file.
C14_NotFoundNoEffect ==
    (run.tool = "diskget" /\ LoadImage(image).ok
        /\ NamesNoFile(image, run.path)) =>
        /\ run.status = 1
        /\ ~run.created
        /\ run.out = <<>>

\* The part of C14 about the output file alone.
C14_NoOutput ==
    (run.tool = "diskget" /\ LoadImage(image).ok
        /\ NamesNoFile(image, run.path)) =>
        ~run.created /\ run.out = <<>>

\* C14 witness: diskget failed in a subdirectory that resolves and holds
\* files, none of them of the name asked for.
C14_Witness ==
    /\ run.tool = "diskget" /\ run.status = 1 /\ run.err = "notfound"
    /\ ResolveOn(image, SplitDir(run.path)).rc = 0
    /\ ResolveOn(image, SplitDir(run.path)).is_root_dir = 0
    /\ \E o \in SeqSet(ListedSlots(image, SplitDir(run.path))) :
           InUse(EntryOff(image, o)) /\ IsFile(EntryOff(image, o))
    /\ NamesNoFile(image, run.path)

\* The directory part of the target of the last diskput and its components.
DirPart == SplitDir(run.path)
DirComps == Tokens(DirPart, <<>>)
DirResolves == ResolveOn(prev, DirPart).rc = 0

\* The writes of directory records into the root region made by the run,
\* and the root slots that hold an in-use directory record they did not
\* hold before.
RootEntryWrites == {i \in 1..Len(run.log) : run.log[i].tag = "rootentry"}
InRootRegion(off) ==
    /\ off >= RootStart * BlockSize
    /\ off + EntrySize <= (RootStart + RootBlocks) * BlockSize
    /\ (off - RootStart * BlockSize) % EntrySize = 0
NewRootDirs ==
    {o \in SeqSet(RootSlotsOf(image)) :
        /\ InUse(EntryOff(image, o)) /\ IsDir(EntryOff(image, o))
        /\ ReadAt(image, o, EntrySize) # ReadAt(prev, o, EntrySize)}
MadeDirectory ==
    RootEntryWrites # {} \/ run.dirblocks # <<>> \/ NewRootDirs # {}

NewDirBlock == run.dirblocks[1]
FirstFreeRootSlot ==
    MinOf({o \in SeqSet(RootSlotsOf(prev)) : ~InUse(EntryOff(prev, o))})
NewDirSlot(i) == NewDirBlock * BlockSize + i * EntrySize
WroteFileAt(o) ==
    \E j \in 1..Len(run.log) : run.log[j].tag = "entry" /\ run.log[j].off = o

\* What C16 says of a created directory, for the name `name`.
SubdirCreatedAs(name) ==
    /\ Len(run.dirblocks) = 1
    /\ FatAt(FatOf(prev), NewDirBlock) = 0
    /\ FatAt(run.fat, NewDirBlock) = EOC
    /\ InUse(EntryOff(image, NewDirSlot(0)))
    /\ IsDir(EntryOff(image, NewDirSlot(0)))
    /\ CStr(EntryOff(image, NewDirSlot(0)).filename) = <<Dot>>
    /\ StartOf(image, NewDirSlot(0)) = NewDirBlock
    /\ \A i \in 1..(SlotsPerBlock - 1) :
          ~InUse(EntryOff(image, NewDirSlot(i))) \/ WroteFileAt(NewDirSlot(i))
    /\ InUse(EntryOff(image, FirstFreeRootSlot))
    /\ IsDir(EntryOff(image, FirstFreeRootSlot))
    /\ ~IsFile(EntryOff(image, FirstFreeRootSlot))
    /\ CStr(EntryOff(image, FirstFreeRootSlot).filename) = name
    /\ StartOf(image, FirstFreeRootSlot) = NewDirBlock
    /\ Ntohl(EntryOff(image, FirstFreeRootSlot).block_count) = 1

\* C16: when diskput creates /name, one block B is allocated for it, B
\* holds an in-use directory record '.' with starting block B in slot 0
\* and no other record of a directory, and the first free slot of root
\* holds an in-use directory record for name with starting block B and
\* block count 1.
C16_SubdirCreated ==
    (IsPut /\ run.inserted) => SubdirCreatedAs(DirComps[1])

\* The same with the name as ensure_simple_subdir_exists copies it.
C16_SubdirCreatedCopiedName ==
    (IsPut /\ run.inserted) => SubdirCreatedAs(Take(DirComps[1], DirNameLen))

ReservedSet(fat) ==
    {i \in 0..((Len(fat) \div U32Bytes) - 1) : FatAt(fat, i) = 1}

\* C17: diskput allocates only entries whose value is 0 and leaves the
\* entries of value 1 what they were, in the table it builds and in the
\* on-disk FAT; diskinfo counts an entry as free iff its value is 0, as
\* reserved iff it is 1 and as allocated otherwise, the three counts adding
\* up to fat_entries.
C17_ReservedAndInfo ==
    /\ (IsPut /\ LoadImage(prev).ok) =>
          /\ \A b \in SeqSet(run.blocks) \cup SeqSet(run.dirblocks) :
                FatAt(FatOf(prev), b) = 0
          /\ LoadImage(image).ok
          /\ ReservedSet(FatOf(image)) = ReservedSet(FatOf(prev))
          /\ ReservedSet(run.fat) = ReservedSet(FatOf(prev))
    /\ (run.tool = "diskinfo" /\ run.status = 0) =>
          /\ run.out.free = FreeCount(FatOf(image))
          /\ run.out.reserved = Cardinality(ReservedSet(FatOf(image)))
          /\ run.out.allocated =
                Cardinality((0..(FatCount(image) - 1))
                               \ (FreeSet(FatOf(image))
                                     \cup ReservedSet(FatOf(image))))
          /\ run.out.free + run.out.reserved + run.out.allocated
                = FatCount(image)

\* C17 witness: diskinfo after a diskput that allocated a directory block
\* and two file blocks on a fresh image: three entries allocated, the
\* reserved ones as many as before.
C17_Witness ==
    /\ run.tool = "diskinfo" /\ run.status = 0
    /\ image # ImgFresh
    /\ run.out.allocated = 3
    /\ run.out.free = DataBlocks - 3
    /\ run.out.reserved = Cardinality(ReservedSet(FatOf(ImgFresh)))

\* The words of a command joined by single blanks.
RECURSIVE Spaced(_)
Spaced(args) ==
    IF Len(args) = 0 THEN <<>>
    ELSE IF Len(args) = 1 THEN <<args[1]>>
    ELSE <<args[1], " ">> \o Spaced(Tail(args))

\* The background children forked so far and not yet waited for.
LiveBg == {s \in 1..nforks : hist[s].kind = "bg" /\ ~hist[s].reaped}

JobsOf(pid) == {i \in 1..Len(jobs) : jobs[i].pid = pid}

\* C18: the job list holds exactly one record, pid and joined command
\* line, for every background child forked and not yet reaped, and no
\* other record (so a bg without a command or with a failed fork has added
\* none); bglist prints every record and their number.
C18_JobList ==
    /\ Len(jobs) = Cardinality(LiveBg)
    /\ \A s \in LiveBg :
          /\ Cardinality(JobsOf(hist[s].pid)) = 1
          /\ \A i \in JobsOf(hist[s].pid) :
                jobs[i].cmdline = Spaced(hist[s].args)
    /\ said.kind = "bglist" =>
          /\ said.total = Len(jobs)
          /\ Len(said.lines) = Len(jobs)
          /\ \A i \in 1..Len(jobs) :
                /\ said.lines[i].pid = jobs[i].pid
                /\ said.lines[i].cmd = jobs[i].cmdline

\* C18 witness: bglist printed two jobs, a third one having been reaped
\* before and all forks of the run used up.
C18_Witness ==
    /\ said.kind = "bglist" /\ said.total = 2
    /\ Len(jobs) = 2
    /\ jobs[1].cmdline = <<"b", " ", "c">>
    /\ \E s \in 1..nforks : hist[s].kind = "bg" /\ hist[s].reaped
    /\ nforks = MaxForks

\* C19: a background job is reported at most once, only after its child
\* has terminated, as its pid and its command line, and is then off the
\* list; every background child that has been reaped has been reported;
\* and when the prompt is shown every child that had terminated when the
\* shell came back to the top of its loop has been reaped, reported if it
\* was a background job, and is off the list.
C19_TerminationNotice ==
    /\ \A s \in 1..nforks :
          /\ hist[s].reports <= 1
          /\ ~hist[s].early
          /\ hist[s].reports = 1 => hist[s].reaped /\ hist[s].kind = "bg"
          /\ (hist[s].kind = "bg" /\ hist[s].reaped) => hist[s].reports = 1
    /\ said.kind = "report" =>
          /\ hist[said.serial].kind = "bg"
          /\ hist[said.serial].reaped
          /\ said.pid = hist[said.serial].pid
          /\ said.cmd = Spaced(hist[said.serial].args)
          /\ JobsOf(said.pid) = {}
    /\ pc = "prompt" =>
          \A s \in seen :
              /\ hist[s].reaped
              /\ hist[s].kind = "bg" =>
                    hist[s].reports = 1 /\ JobsOf(hist[s].pid) = {}

\* C19 witness: the shell has just reported the job `b c`, whose child had
\* terminated before the loop came round, another job being still listed.
C19_Witness ==
    /\ pc = "reap"
    /\ said.kind = "report"
    /\ said.cmd = <<"b", " ", "c">>
    /\ said.serial \in seen
    /\ Len(jobs) = 1

ShellInForeground == pc \in {"fg_fork", "fg_wait"}

\* C20: from before the fork of run_foreground until the function returns
\* the shell ignores SIGINT; outside run_foreground, so after each of its
\* returns, the shell has the handler it had before; the program of a
\* foreground child runs with the default disposition.
C20_SigintDiscipline ==
    /\ ShellInForeground => sigint = "ignore" /\ oldint = "handler"
    /\ ~ShellInForeground => sigint = "handler"
    /\ \A p \in Pids :
          (proc[p].kind = "fg" /\ proc[p].state = "running") =>
              proc[p].sig = "default"

\* C20 witness: the shell waits, ignoring SIGINT, for a foreground child
\* whose program runs with the default disposition.
C20_Witness ==
    /\ pc = "fg_wait"
    /\ sigint = "ignore"
    /\ proc[fgpid].kind = "fg"
    /\ proc[fgpid].state = "running"
    /\ proc[fgpid].sig = "default"

Builtins == {"cd", "bg", "bglist"}
Alive(p) == proc[p].state \in {"forked", "reset", "running"}

\* C21: a child forked for a foreground command is still alive only while
\* the shell waits for it in run_foreground, so the prompt is not shown
\* before that child has terminated; the shell never takes a foreground
\* child off the system before it has terminated; and the command of every
\* foreground child, like the one run_foreground is working on, has a
\* first word that is none of cd, bg, bglist.
C21_ForegroundOrdering ==
    /\ \A p \in Pids :
          (proc[p].kind = "fg" /\ Alive(p)) => pc = "fg_wait" /\ fgpid = p
    /\ pc = "prompt" => \A p \in Pids : proc[p].kind # "fg"
    /\ \A s \in 1..nforks :
          hist[s].kind = "fg" =>
              /\ ~hist[s].early
              /\ hist[s].args # <<>>
              /\ hist[s].args[1] \notin Builtins
    /\ ShellInForeground => fgargv # <<>> /\ fgargv[1] \notin Builtins

\* C21 witness: the prompt is shown after the foreground command `ls`,
\* whose child has been waited for, while a background child still runs.
C21_Witness ==
    /\ pc = "prompt"
    /\ \E s \in 1..nforks :
          hist[s].kind = "fg" /\ hist[s].reaped /\ hist[s].args = <<"ls">>
    /\ \E p \in Pids : proc[p].kind = "bg" /\ proc[p].state = "running"

\* The in-memory FAT diskput has when it allocates the file's blocks: the
\* table read from the image, with the block of the directory the run has
\* created, if any, marked as a chain of one.
FatBeforeFile ==
    [i \in 1..Len(FatOf(prev)) |->
        IF run.dirblocks # <<>>
              /\ (i - 1) \div U32Bytes = run.dirblocks[1]
        THEN 255
        ELSE FatOf(prev)[i]]

\* allocate_blocks was called for the file / for a new directory.
FileAllocCalled == IsPut /\ (run.blocks # <<>> \/ run.err = "nospace")
DirAllocCalled == IsPut /\ (run.dirblocks # <<>> \/ run.err = "dirnospace")

\* q holds, in ascending order, the lowest-indexed free entries of fat.
LowestFree(fat, q) ==
    /\ \A j \in 1..Len(q) : q[j] \in FreeSet(fat)
    /\ \A j \in 1..(Len(q) - 1) : q[j] < q[j + 1]
    /\ \A i \in FreeSet(fat) : i < q[Len(q)] => i \in SeqSet(q)

\* after is before with q linked in order and closed by the terminator.
LinkedInOrder(before, after, q) ==
    /\ Len(after) = Len(before)
    /\ \A i \in 0..((Len(before) \div U32Bytes) - 1) :
          IF \E j \in 1..Len(q) : q[j] = i
          THEN LET j == CHOOSE k \in 1..Len(q) : q[k] = i
               IN  FatAt(after, i) = IF j < Len(q) THEN q[j + 1] ELSE EOC
          ELSE FatAt(after, i) = FatAt(before, i)

\* C22: whenever diskput calls allocate_blocks(n), n >= 1, on a table
\* with at least n free entries, the call succeeds, out_blocks are the n
\* lowest-indexed free entries in ascending order, and the table after
\* the call differs from the one before exactly in those entries, each
\* holding the next one and the last the terminator.  Both calls are
\* covered: the one for a new directory (n = 1) and the one for the file.
C22_FirstFit ==
    /\ (DirAllocCalled /\ FreeCount(FatOf(prev)) >= 1) =>
          /\ Len(run.dirblocks) = 1
          /\ LowestFree(FatOf(prev), run.dirblocks)
          /\ run.blocks = <<>> =>
                LinkedInOrder(FatOf(prev), run.fat, run.dirblocks)
    /\ (FileAllocCalled /\ FreeCount(FatBeforeFile) >= K(Len(run.data))) =>
          /\ Len(run.blocks) = K(Len(run.data))
          /\ LowestFree(FatBeforeFile, run.blocks)
          /\ LinkedInOrder(FatBeforeFile, run.fat, run.blocks)

\* C22 witness: a run created a directory and stored a two-block file in
\* it, and the free entries it took are not neighbours in the table.
C22_Witness ==
    /\ PutOk
    /\ Len(run.dirblocks) = 1
    /\ Len(run.blocks) = 2
    /\ \E i \in run.dirblocks[1]..run.blocks[2] :
          FatAt(FatOf(prev), i) # 0

\* C23: a call of allocate_blocks(n) made by diskput fails exactly when
\* the table holds fewer than n entries of value 0, and a failing call
\* leaves the in-memory table as it found it.  Both calls are covered: the
\* one for a new directory (n = 1) and the one for the file.
C23_AllocFailsIffShort ==
    /\ DirAllocCalled =>
          /\ run.err = "dirnospace" <=> FreeCount(FatOf(prev)) < 1
          /\ run.err = "dirnospace" => run.fat = FatOf(prev)
    /\ FileAllocCalled =>
          /\ run.err = "nospace" <=>
                FreeCount(FatBeforeFile) < K(Len(run.data))
          /\ run.err = "nospace" => run.fat = FatBeforeFile

\* C23 witness: the call for a two-block file found one free entry, the
\* only one of the table, and failed.
C23_Witness ==
    /\ PutFailed
    /\ run.err = "nospace"
    /\ K(Len(run.data)) = 2
    /\ FreeCount(FatBeforeFile) = 1
    /\ run.fat = FatOf(prev)

\* The positions in the log of the run of the writes that reach into the
\* FAT region of the image.
TouchesFat(w) ==
    /\ w.off < (FatStart + FatBlocks) * BlockSize
    /\ w.off + w.len > FatStart * BlockSize
FatWrites == {i \in 1..Len(run.log) : TouchesFat(run.log[i])}
WroteBefore(i, tag, off, len) ==
    \E j \in 1..(i - 1) :
        /\ run.log[j].tag = tag
        /\ run.log[j].off = off
        /\ run.log[j].len = len

\* C24: a diskput run writes into the FAT region at most once; that write
\* starts at the beginning of the region and is the last write of the run;
\* before it, every block of the file's chain has been written in chain
\* order, then one directory record, and, when the run created the
\* directory, the directory's block and a record of the root region before
\* those; a run that does not return 0 has not written into the region.
C24_WriteBackOrder ==
    IsPut =>
        /\ Cardinality(FatWrites) <= 1
        /\ \A i \in FatWrites :
              /\ i = Len(run.log)
              /\ run.log[i].off = FatStart * BlockSize
              /\ run.status = 0
              /\ i = 1 + Len(run.blocks) + 2 * Len(run.dirblocks) + 1
              /\ \A j \in 1..Len(run.blocks) :
                    run.log[2 * Len(run.dirblocks) + j] =
                        [tag |-> "data", off |-> run.blocks[j] * BlockSize,
                         len |-> BlockSize]
              /\ run.log[i - 1].tag = "entry"
              /\ run.log[i - 1].len = EntrySize
              /\ run.dirblocks # <<>> =>
                    /\ run.log[1] =
                          [tag |-> "dirblock",
                           off |-> run.dirblocks[1] * BlockSize,
                           len |-> SlotsPerBlock * EntrySize]
                    /\ run.log[2].tag = "rootentry"
                    /\ run.log[2].len = EntrySize
                    /\ InRootRegion(run.log[2].off)
        /\ run.status # 0 => FatWrites = {}

\* C24 witness: a run created the directory, stored a two-block file in it
\* and wrote the FAT back as its sixth and last write.
C24_Witness ==
    /\ PutOk
    /\ Len(run.log) = 6
    /\ FatWrites = {6}
    /\ run.log[1].tag = "dirblock"
    /\ run.log[5].tag = "entry"

\* Starting blocks of a walk: every data block, the last index of the
\* table, the first ones beyond it, and the terminator.
WalkStarts ==
    DataStart..(BlockCount - 1)
        \cup {FatEntries - 1, FatEntries, FatEntries + 2, EOC}
WalkTargets == {<<cs, "dir">>, <<cf, "dir">>, <<ch, "file">>, <<cf, "file">>}
InTable(L, r) == r.derefs \subseteq 0..(L.fat_entries - 1)
OffTable(L, start) == ~ChainWalk(L.fat, L.fat_entries, start, <<>>).ok
WalkOk(L, start, r) ==
    /\ InTable(L, r)
    /\ start >= L.fat_entries => r.res = "range"
    /\ r.res = "range" => OffTable(L, start)
CopyOk(L, start, r) ==
    /\ InTable(L, r)
    /\ start >= L.fat_entries => r.status = 1

\* C25: on the image as it stands, whatever block a walk is started at,
\* the directory search of the resolver and of the file lookup, the
\* listing walk, the copy loop of diskget and the free-slot search of
\* diskput read the in-memory FAT only at indices below fat_entries; a
\* walk started at a block that is no index of the table reads nothing
\* and ends with the range error (the copy loop: with status 1), and a
\* walk ends with the range error only where the chain leaves the table.
\* A tool other than disklist that met the range error does not return 0.
C25_FatBounds ==
    LET Safe(L) ==
            \A start \in WalkStarts :
                /\ \A t \in WalkTargets :
                      WalkOk(L, start,
                             ChainFind(image, L, start, t[1], t[2], 0))
                /\ WalkOk(L, start,
                          ListDirectoryFromChain(image, L, start, 0))
                /\ WalkOk(L, start, ChainFree(image, L, start, 0))
                /\ \A size \in {1, 3 * BlockSize} :
                      CopyOk(L, start,
                             CopyOut(image, L, start, size, <<>>, 0))
    IN  /\ LoadImage(image).ok => Safe(LoadImage(image))
        /\ (run.err = "range" /\ run.tool # "disklist") => run.status = 1

\* C25 witness: on an image whose file goes on beyond the last block the
\* FAT has an entry for, diskput met a next-pointer beyond the table in
\* the chain of the target directory and failed.
C25_Witness ==
    /\ IsPut
    /\ run.err = "range"
    /\ run.status = 1
    /\ Len(image) > FatEntries * BlockSize
    /\ ListDirectoryFromChain(image, LoadImage(image), Blk(1), 0).res = "range"
    /\ ListDirectoryFromChain(image, LoadImage(image), Blk(1), 0).derefs
          = {Blk(1), Blk(3)}

\* The records of the directory the last diskput was to store into, as the
\* run found them, in on-disk order, and the first of them that is free.
TargetSlots == ListedSlots(prev, DirPart)
FreeTargetSlots ==
    {i \in 1..Len(TargetSlots) : ~InUse(EntryOff(prev, TargetSlots[i]))}
OnlySlotChanged(i) ==
    \A j \in 1..Len(TargetSlots) :
        j # i => ReadAt(image, TargetSlots[j], EntrySize)
                    = ReadAt(prev, TargetSlots[j], EntrySize)

\* C26 as stated: a diskput that returns 0 for a target directory that
\* existed has written the new record into the first record of that
\* directory, in on-disk order, whose in-use bit was clear, and every
\* other record of the directory is afterwards byte for byte what it was.
C26_FreeSlotFrame ==
    (PutOk /\ DirResolves) =>
        /\ FreeTargetSlots # {}
        /\ NewEntryOff = TargetSlots[MinOf(FreeTargetSlots)]
        /\ OnlySlotChanged(MinOf(FreeTargetSlots))

\* C26 for the images error-free runs leave: the same, from a well-formed
\* image.
C26_FreeSlotFrameWellFormed ==
    (PutOk /\ DirResolves /\ WellFormed(prev)) =>
        /\ FreeTargetSlots # {}
        /\ NewEntryOff = TargetSlots[MinOf(FreeTargetSlots)]
        /\ OnlySlotChanged(MinOf(FreeTargetSlots))

\* The record the i-th write of the run put at the start of its range.
WrittenRecord(i) == EntryOff(image, run.log[i].off)
WritesTagged(tag) == {i \in 1..Len(run.log) : run.log[i].tag = tag}
RecordIs(e, status, chain, size) ==
    /\ e.status = status
    /\ InUse(e)
    /\ IsFile(e) # IsDir(e)
    /\ e.unused = Fill(UnusedBytes, 255)
    /\ chain # <<>>
    /\ Ntohl(e.starting_block) = chain[1]
    /\ Ntohl(e.block_count) = Len(chain)
    /\ Ntohl(e.file_size) = size
    /\ ChainWalk(run.fat, FatEntries, chain[1], <<>>) =
          [ok |-> TRUE, blocks |-> chain]

\* C27: every record a diskput run has built and written, whether the run
\* then returned 0 or not, is in use and of exactly one type, with all
\* padding bytes 0xFF: the file's record has status 3, the first block of
\* the file's chain, the length of that chain in the in-memory FAT and the
\* size of the source; the root record of a created directory and the
\* record `.` in its block have status 5, the directory's block, count 1
\* and size 0.
C27_EntryFields ==
    IsPut =>
        /\ \A i \in WritesTagged("entry") :
              RecordIs(WrittenRecord(i), 3, run.blocks, Len(run.data))
        /\ \A i \in WritesTagged("rootentry") :
              RecordIs(WrittenRecord(i), 5, run.dirblocks, 0)
        /\ \A i \in WritesTagged("dirblock") :
              /\ RecordIs(WrittenRecord(i), 5, run.dirblocks, 0)
              /\ IsDot(WrittenRecord(i))

\* C27 witness: one run wrote the block of a new directory, its root
\* record and the record of a file of BlockSize + 1 bytes.
C27_Witness ==
    /\ PutOk
    /\ WritesTagged("dirblock") = {1}
    /\ WritesTagged("rootentry") = {2}
    /\ WritesTagged("entry") = {5}
    /\ Ntohl(WrittenRecord(5).file_size) = BlockSize + 1
    /\ Ntohl(WrittenRecord(5).block_count) = 2

\* ceil(s / b) in the integers.
CeilDiv(s, b) == (s + b - 1) \div b

\* C28 as stated: for every source size the size field can hold and every
\* block size, blocks_needed is max(1, ceil(size / block_size)).
C28_BlockCount ==
    calc.block_size > 0 =>
        calc.blocks_needed = Max(1, CeilDiv(calc.src_size, calc.block_size))

\* C28 where the sum does not pass the largest uint32_t: the same, for
\* src_size + block_size - 1 < 2^32 (scaled: Word).
C28_BlockCountNoWrap ==
    (calc.block_size > 0 /\ calc.src_size + calc.block_size - 1 < Word) =>
        calc.blocks_needed = Max(1, CeilDiv(calc.src_size, calc.block_size))


\* The block the data loop builds for the k-th block of the chain: source
\* bytes [(k-1)*block_size, k*block_size), zeros after the last of them.
Chunk(k) ==
    LET from == Min((k - 1) * BlockSize, Len(run.data))
        upto == Min(k * BlockSize, Len(run.data))
    IN  SubSeq(run.data, from + 1, upto) \o Fill(BlockSize - (upto - from), 0)

\* The data writes of the run, in the order they were made.
DataWrites == SelectSeq(run.log, LAMBDA w : w.tag = "data")

\* Position p of the image lies in a region the run wrote after its data.
WrittenLater(p) ==
    \E j \in 1..Len(run.log) :
        /\ run.log[j].tag # "data"
        /\ \E i \in 1..j : run.log[i].tag = "data"
        /\ run.log[j].off <= p
        /\ p < run.log[j].off + run.log[j].len

DataLoopRan == IsPut /\ run.blocks # <<>>

\* C29: when a diskput run leaves its data loop, it has made one write of a
\* whole block per block of the chain, in chain order, and when the run
\* ends block k of the chain holds source bytes [(k-1)*block_size,
\* k*block_size) followed by zeros up to the end of the block (a whole
\* block of zeros for an empty source).
C29_DataLayout ==
    DataLoopRan =>
        /\ Len(DataWrites) = Len(run.blocks)
        /\ \A k \in 1..Len(run.blocks) :
              /\ DataWrites[k].off = run.blocks[k] * BlockSize
              /\ DataWrites[k].len = BlockSize
              /\ ReadAt(image, run.blocks[k] * BlockSize, BlockSize) = Chunk(k)

\* C29 without the bytes the same run wrote over afterwards: every byte of
\* the chain's blocks that no later write of the run covers is the byte the
\* data loop put there.
C29_DataLayoutAsWritten ==
    DataLoopRan =>
        /\ Len(DataWrites) = Len(run.blocks)
        /\ \A k \in 1..Len(run.blocks) :
              /\ DataWrites[k].off = run.blocks[k] * BlockSize
              /\ DataWrites[k].len = BlockSize
              /\ \A b \in 1..BlockSize :
                    WrittenLater(run.blocks[k] * BlockSize + b - 1)
                    \/ image[run.blocks[k] * BlockSize + b] = Chunk(k)[b]


\* The name a record holds, as far as the filename field goes, is the
\* query, as far as the field goes.
SameName(e, q) == CStr(e.filename) = Take(q, NameField)
HoldsRecord(e, q, kind) ==
    /\ InUse(e)
    /\ IF kind = "file" THEN IsFile(e) ELSE IsDir(e)
    /\ SameName(e, q)

NameQueries == {cabc, cabd, cab, cabcd, cf, <<Dot>>}
RootDirStarts ==
    {StartOf(image, o) :
        o \in {r \in UsedAt(image, RootOffset(LoadImage(image)),
                            RootEntries(LoadImage(image))) :
                 IsDir(EntryOff(image, r))}}

\* A search that ended: what it found is a record of the wanted type that
\* holds the query, and it found nothing only where no record of the
\* directory does.
LookupOk(r, slots, q, kind) ==
    /\ r.res = "found" => HoldsRecord(r.entry, q, kind)
    /\ r.res = "none" =>
          \A i \in 1..Len(slots) : ~HoldsRecord(EntryOff(image, slots[i]), q, kind)

\* C30: in every search by name, for a directory (the path resolver) or for
\* a file (the root search and the chain search), in root or in the chain
\* of a directory of root, the record found is in use, of the wanted type
\* and holds the same name as the query as far as the filename field goes,
\* and a record that does so is found: a name that fills the field matches
\* the query of that length and any longer query that begins with it, and
\* no query that differs from it within the field.
C30_BoundedNameCompare ==
    LoadImage(image).ok =>
        \A q \in NameQueries, kind \in {"file", "dir"} :
            /\ LookupOk(ScanDir(image, RootOffset(LoadImage(image)),
                                RootEntries(LoadImage(image)), q, kind),
                        RootSlotsOf(image), q, kind)
            /\ \A start \in RootDirStarts :
                  LookupOk(ChainFind(image, LoadImage(image), start, q, kind, 0),
                           ChainSlots(image, start), q, kind)

\* C30 witness: diskget has copied out /abc/abc, the resolver having
\* matched the directory record abc and the chain search the file record
\* abc, both filling the field; the root search finds the file /abc for
\* /abc and for /abcd, the file /ab for /ab, and nothing for /abd.
C30_Witness ==
    /\ run.tool = "diskget" /\ run.path = P(<<cabc, cabc>>)
    /\ run.status = 0 /\ run.out = Data(2)
    /\ image = ImgNames
    /\ \A i \in 1..NameField : GetLookup(image, run.path).entry.filename[i] # 0
    /\ DiskGetMain(image, P(<<cabc>>)).out = Data(3)
    /\ DiskGetMain(image, P(<<cabcd>>)).out = Data(3)
    /\ DiskGetMain(image, P(<<cab>>)).out = Data(1)
    /\ DiskGetMain(image, P(<<cabd>>)).status = 1
    /\ DiskGetMain(image, P(<<cabc, cabd>>)).status = 1
    /\ DiskGetMain(image, P(<<cab, cabc>>)).status = 1


BadMagic(img) == ReadAt(img, 0, MagicBytes) # Magic

\* C31: a tool run on an image whose identifier is not the tag exits
\* non-zero without hanging; when the superblock could be read the failure
\* is the identifier's, reported before the FAT is located or read (the run
\* holds no FAT), and the run printed nothing, created no output file, made
\* no write and left every byte of the image as it was.
C31_BadMagicAborts ==
    (run.tool # "none" /\ BadMagic(prev)) =>
        /\ run.status = 1
        /\ ~run.hang
        /\ CanRead(prev, 0, SuperSize) => run.err = "magic"
        /\ run.fat = <<>>
        /\ run.out = <<>>
        /\ ~run.created
        /\ run.log = <<>>
        /\ image = prev

\* C31 witness: diskput was run on an image whose identifier differs from
\* the tag in its last byte only and whose FAT cannot be read.
C31_Witness ==
    /\ IsPut
    /\ prev = ImgBadCut
    /\ ReadAt(prev, 0, MagicBytes - 1) = Take(Magic, MagicBytes - 1)
    /\ ~CanRead(prev, FatStart * BlockSize, 1)
    /\ run.status = 1
    /\ run.err = "magic"


\* Positions, in the directory the path's directory part resolves to, of
\* the records that are in use, have the file bit and hold the path's name.
FileHits(img, q) ==
    {i \in 1..Len(ListedSlots(img, SplitDir(q))) :
        IsFileNamed(EntryOff(img, ListedSlots(img, SplitDir(q))[i]), q)}
FirstFile(img, q) ==
    EntryOff(img, ListedSlots(img, SplitDir(q))[MinOf(FileHits(img, q))])
CopyOf(img, e) ==
    CopyOut(img, LoadImage(img), Ntohl(e.starting_block), Ntohl(e.file_size),
            <<>>, 0)

\* What diskget did with path q on image img, r being its result.
TypedLookupOk(img, q, r, hits, mayhang) ==
    /\ hits # {} =>
          /\ r.created
          /\ r.out = CopyOf(img, FirstFile(img, q)).out
          /\ r.status = CopyOf(img, FirstFile(img, q)).status
    /\ hits = {} =>
          /\ ~r.created
          /\ r.out = <<>>
          /\ \/ r.status = 1 /\ r.err = "notfound"
             \/ mayhang /\ r.hang

\* C32: when the directory part of its path resolves, diskget extracts the
\* first record, in the on-disk order of that directory, that is in use,
\* has the file bit and holds the requested name, whatever other records
\* of that name precede it; when the directory holds no such record, a
\* directory of that name included, it creates no output and exits 1 with
\* the not-found message.  Checked for the run just made and for every
\* path of GetPaths on the current image.
C32_TypedFileLookup ==
    LoadImage(image).ok =>
        /\ (run.tool = "diskget" /\ ResolveOn(image, DirPart).rc = 0) =>
              TypedLookupOk(image, run.path, run, FileHits(image, run.path),
                            FALSE)
        /\ \A q \in GetPaths :
              ResolveOn(image, SplitDir(q)).rc = 0 =>
                  TypedLookupOk(image, q, DiskGetMain(image, q),
                                FileHits(image, q), FALSE)


\* C32 apart from termination: the same, except that a search that finds no
\* such record may also never end.
C32_TypedFileLookupOrHang ==
    LoadImage(image).ok =>
        /\ (run.tool = "diskget" /\ ResolveOn(image, DirPart).rc = 0) =>
              TypedLookupOk(image, run.path, run, FileHits(image, run.path),
                            TRUE)
        /\ \A q \in GetPaths :
              ResolveOn(image, SplitDir(q)).rc = 0 =>
                  TypedLookupOk(image, q, DiskGetMain(image, q),
                                FileHits(image, q), TRUE)


Readers == {"diskinfo", "disklist", "diskget"}

\* C33: after a run of diskinfo, disklist or diskget, whatever its
\* arguments and whether it returned 0 or not, the image is byte for byte
\* what it was before the run.
C33_ReadOnlyTools == run.tool \in Readers => image = prev


\* A copy of `size` bytes has ended, after at most ceil(size / block_size)
\* reads of a block.
CopyEnds(L, size, r) ==
    /\ ~r.hang
    /\ r.status \in {0, 1}
    /\ r.reads <= CeilDiv(size, L.block_size)
    /\ Len(r.out) <= size

CopySizes == {0, 1, 3 * BlockSize + 1}

NamedOffsets(img) == {o \in AllEntryOffsets(img) : ~IsDot(EntryOff(img, o))}
ChainsKept(img) ==
    /\ \A o \in NamedOffsets(img) : ChainOf(img, StartOf(img, o)).ok
    /\ \A o1, o2 \in NamedOffsets(img) :
          o1 # o2 =>
              SeqSet(ChainOf(img, StartOf(img, o1)).blocks)
                  \cap SeqSet(ChainOf(img, StartOf(img, o2)).blocks) = {}

\* C35: in every image reached from a start image of Spec, all of which
\* have such chains, by runs of the tools, diskput's successful or failed,
\* the chains of the in-use records are acyclic, sentinel-terminated and
\* pairwise disjoint in the on-disk FAT.
C35_ChainsStayDisjoint == ChainsKept(image)

\* C35 for one run that wrote the FAT back: a diskput that returned 0 and
\* wrote the whole FAT, on an image with such chains, leaves such chains.
C35_ChainsKeptWhenWrittenBack ==
    (PutOk /\ run.log[Len(run.log)] = FullFatWrite /\ ChainsKept(prev)) =>
        ChainsKept(image)


\* The file name of the run's path, and the positions in the target
\* directory, as the run found it, of the in-use records that hold it.
PutName == Drop(run.path, LastSlash(run.path))
SameNamed ==
    {i \in 1..Len(TargetSlots) :
        /\ InUse(EntryOff(prev, TargetSlots[i]))
        /\ CStr(EntryOff(prev, TargetSlots[i]).filename) = PutName}

\* The record at offset o and its chain are after the run what they were:
\* the record's bytes, the on-disk FAT entries of the chain's blocks and
\* the blocks' bytes.
KeptWithChain(o) ==
    /\ ReadAt(image, o, EntrySize) = ReadAt(prev, o, EntrySize)
    /\ \A b \in SeqSet(ChainOf(prev, StartOf(prev, o)).blocks) :
          /\ FatAt(FatOf(image), b) = FatAt(FatOf(prev), b)
          /\ ReadAt(image, b * BlockSize, BlockSize)
                = ReadAt(prev, b * BlockSize, BlockSize)

\* A run that nothing but the name could stop: the target directory
\* exists and has a free slot, the FAT has the free entries the file needs
\* and the FAT write-back is undisturbed.
NothingElseFails ==
    /\ IsPut
    /\ run.fault = NoFault
    /\ LoadImage(prev).ok
    /\ DirResolves
    /\ FreeTargetSlots # {}
    /\ FreeCount(FatOf(prev)) >= K(Len(run.data))

AddedSecond ==
    /\ run.status = 0
    /\ \A i \in SameNamed : KeptWithChain(TargetSlots[i])
    /\ NewEntryOff = TargetSlots[MinOf(FreeTargetSlots)]
    /\ InUse(EntryOff(image, NewEntryOff))
    /\ IsFile(EntryOff(image, NewEntryOff))
    /\ CStr(EntryOff(image, NewEntryOff).filename) = PutName

\* C36: a diskput whose file name is already held by an in-use record,
\* file or directory, of the target directory, and which nothing else
\* stops, returns 0, leaves that record, the FAT entries of its chain and
\* the bytes of its blocks as they were, and writes an in-use file record
\* of the same name into the first free slot of the directory.
C36_NoDuplicateCheck ==
    (NothingElseFails /\ SameNamed # {}) => AddedSecond

\* C36 from the images error-free runs leave.
C36_NoDuplicateCheckWellFormed ==
    (NothingElseFails /\ SameNamed # {} /\ WellFormed(prev)) => AddedSecond


\* The run's target directory existed and is a subdirectory; its chain as
\* the on-disk FAT gave it before the run.
IntoSubdir ==
    /\ IsPut
    /\ LoadImage(prev).ok
    /\ DirResolves
    /\ ResolveOn(prev, DirPart).is_root_dir = 0
TargetChain == ChainOf(prev, ResolveOn(prev, DirPart).start_block).blocks
TargetFull ==
    \A i \in 1..Len(TargetSlots) : InUse(EntryOff(prev, TargetSlots[i]))

ChainUntouched ==
    \A b \in SeqSet(TargetChain) :
        /\ FatAt(FatOf(image), b) = FatAt(FatOf(prev), b)
        /\ run.fat # <<>> => FatAt(run.fat, b) = FatAt(FatOf(prev), b)
FullFails ==
    TargetFull =>
        /\ run.status = 1
        /\ FatWrites = {}
        /\ FatOf(image) = FatOf(prev)

\* C37: a diskput into an existing subdirectory leaves the FAT entries of
\* that directory's chain, in memory and on disk, as they were; when every
\* slot of every block of the chain is in use the run exits 1, has not
\* written the FAT and leaves the on-disk FAT, and with it the length of
\* the directory's chain, as it was.
C37_SubdirNeverExtended == IntoSubdir => (ChainUntouched /\ FullFails)

\* C37 from the images error-free runs leave.
C37_SubdirNeverExtendedWellFormed ==
    (IntoSubdir /\ WellFormed(prev)) => (ChainUntouched /\ FullFails)

\* C37 witness: from a well-formed image, a diskput into a subdirectory
\* whose chain ends and whose every record is in use exited 1 after its
\* data block was written, with no write to the FAT.
C37_Witness ==
    /\ IntoSubdir
    /\ WellFormed(prev)
    /\ TargetChain # <<>>
    /\ TargetFull
    /\ run.status = 1
    /\ run.err = "subdirfull"
    /\ WritesTagged("data") # {}
    /\ FatWrites = {}


\* What ensure_simple_subdir_exists returned to the run.
Ensured == EnsureSimpleSubdirExists([img |-> prev, log |-> <<>>],
                                    LoadImage(prev), DirPart)
CreatedDir ==
    /\ IsPut
    /\ run.inserted
    /\ WritesTagged("dirblock") # {}
    /\ WritesTagged("rootentry") # {}
ResolvedToNew(e) ==
    /\ e.inserted
    /\ e.rc = 0
    /\ e.is_root_dir = 0
    /\ e.dirblocks # <<>>
    /\ e.start_block = e.dirblocks[1]
\* The record of the file went to a slot of the block of the new directory.
StoredInNew ==
    run.status = 0 =>
        \E i \in WritesTagged("entry") :
            /\ run.log[i].off >= run.dirblocks[1] * BlockSize
            /\ run.log[i].off < (run.dirblocks[1] + 1) * BlockSize

\* C38: once a diskput run has written the block of a new directory and
\* its record in root, ensure_simple_subdir_exists returns 0 with
\* is_root_dir = 0 and the new block as start block, the run does not end
\* for want of the directory, and a run that exits 0 has written the
\* record of the file into the new block.
C38_CreationResolves ==
    CreatedDir => (ResolvedToNew(Ensured) /\ run.err # "dirlost" /\ StoredInNew)

\* C38 for names the record of the directory holds whole.
C38_CreationResolvesShortName ==
    (CreatedDir /\ Len(DirPart) - 1 <= DirNameLen)
        => (ResolvedToNew(Ensured) /\ run.err # "dirlost" /\ StoredInNew)

\* The blocks the run allocated, for the file and for a new directory, and
\* the blocks its data and directory-block writes went to.
BlocksTaken == SeqSet(run.blocks) \cup SeqSet(run.dirblocks)
BlocksWritten ==
    {run.log[i].off \div BlockSize :
        i \in WritesTagged("data") \cup WritesTagged("dirblock")}
InsideImage ==
    /\ \A b \in BlocksTaken \cup BlocksWritten :
          b < LoadImage(prev).block_count
    /\ Len(image) = Len(prev)

\* C39: every block a diskput run allocates, and every block it writes
\* data or a new directory block to, has a number below the block_count
\* of the superblock, and the image file keeps its length.
C39_AllocatedInsideImage == (IsPut /\ LoadImage(prev).ok) => InsideImage

\* C39 for a FAT whose entries from block_count on are not zero.
C39_AllocatedInsideImageReserved ==
    (/\ IsPut
     /\ LoadImage(prev).ok
     /\ \A i \in LoadImage(prev).block_count
                    ..(LoadImage(prev).fat_entries - 1) :
           FatAt(FatOf(prev), i) # 0)
        => InsideImage

====
